---- MODULE Spec2Model ----
(***************************************************************************)
(* Model of the request security guard of                                  *)
(* src/src/lib/security/security-guard-enhanced.ts: the rate-limit stores, *)
(* the CORS evaluator, the permission checker and the Secure() pipeline    *)
(* that wraps an API handler; of the auth middleware (src/middleware.ts);  *)
(* and of UserActivityService.trackActivity.                               *)
(*                                                                         *)
(* Strings the code takes apart or concatenates (rate-limit keys, window   *)
(* durations) are sequences of one-character strings; strings the code     *)
(* only compares (origins, role names, error codes) are TLA+ strings.      *)
(* An optional field is the empty sequence when unset and a one-element    *)
(* sequence when set.                                                      *)
(*                                                                         *)
(* Spec        one endpoint Secure(config), for every configuration, and   *)
(*             the requests made to it.                                    *)
(* SpecLimiter checkUserLimit / checkIpLimit called on their own.          *)
(* SpecFlood   an endpoint with {auth: required, ipRateLimit} under a      *)
(*             sequence of requests from one client IP.                    *)
(* SpecPost    the guard, and its post-invocation block applied to every   *)
(*             handler outcome, request and configuration.                 *)
(* SpecToken   TokenManager.shouldRefreshToken called on its own.          *)
(* SpecConcurrent  two calls of a rate-limited endpoint in progress at     *)
(*             once, interleaved at the await of the wrapped handler.      *)
(* SpecCors    the guard under every shape of corsOrigins and of the       *)
(*             Origin header.                                              *)
(* SpecMiddleware  the auth middleware and a browser following redirects.  *)
(* SpecActivity    trackActivity called by two callers at once.            *)
(***************************************************************************)
EXTENDS Integers, Sequences, FiniteSets, TLC

(***************************************************************************)
(* Bounds of the model.                                                    *)
(***************************************************************************)
\* The clock of the guard specification advances at most MaxTicks times.
MaxTicks == 1

\* Amounts (ms) by which Date.now() advances between two calls of the guard.
TickSteps == {1500}

\* The rate-limiter and the flood specifications: the clock advances at
\* most MaxFineTicks times, by one of FineSteps, and the history keeps at
\* most MaxCalls calls.
MaxFineTicks == 2
MaxCalls == 4
FineSteps == {1000}

\* The refresh-throttle specification: the clock advances at most
\* MaxTokenTicks times, by one of TokenSteps (twenty minutes), and the
\* history keeps at most MaxRefreshes calls.
MaxTokenTicks == 4
MaxRefreshes == 7
TokenSteps == {20 * 60 * 1000}

\* The auth middleware: how many redirects a browser follows in a row.
MaxHops == 3

\* The activity service: rows in the table plus calls in progress.
MaxRows == 3

Unset == <<>>
Some(x) == <<x>>
IsSet(o) == o # <<>>
Get(o) == o[1]

Includes(list, x) == \E i \in 1..Len(list) : list[i] = x

(***************************************************************************)
(* JSON.stringify and parseInt, on sequences of characters.                *)
(***************************************************************************)
Quote == "\""
Backslash == "\\"

DigitChars == <<"0", "1", "2", "3", "4", "5", "6", "7", "8", "9">>
IsDigit(c) == \E d \in 1..10 : DigitChars[d] = c
DigitVal(c) == (CHOOSE d \in 1..10 : DigitChars[d] = c) - 1

RECURSIVE NumberToString(_)
NumberToString(n) ==
    IF n < 10 THEN <<DigitChars[n + 1]>>
    ELSE NumberToString(n \div 10) \o <<DigitChars[(n % 10) + 1]>>

RECURSIVE EscapeString(_)
EscapeString(s) ==
    IF s = <<>> THEN <<>>
    ELSE (IF Head(s) = Quote \/ Head(s) = Backslash
          THEN <<Backslash, Head(s)>> ELSE <<Head(s)>>) \o EscapeString(Tail(s))

\* JSON.stringify of { requests: number; window: string }, keys in the
\* order of the interface (SecurityConfig.rateLimit / ipRateLimit).
JSONStringify(config) ==
    <<"{", Quote, "r", "e", "q", "u", "e", "s", "t", "s", Quote, ":">>
    \o NumberToString(config.requests)
    \o <<",", Quote, "w", "i", "n", "d", "o", "w", Quote, ":", Quote>>
    \o EscapeString(config.window)
    \o <<Quote, "}">>

\* parseInt on a string that starts with a digit: the value of its leading digits.
RECURSIVE ParseIntFrom(_, _)
ParseIntFrom(s, acc) ==
    IF s = <<>> \/ ~IsDigit(Head(s)) THEN acc
    ELSE ParseIntFrom(Tail(s), acc * 10 + DigitVal(Head(s)))
ParseInt(s) == ParseIntFrom(s, 0)

(***************************************************************************)
(* RateLimiter                                                             *)
(***************************************************************************)
parseWindow(window) ==
    LET unit == window[Len(window)]
        value == ParseInt(SubSeq(window, 1, Len(window) - 1))
    IN  CASE unit = "s" -> value * 1000
          [] unit = "m" -> value * 60 * 1000
          [] unit = "h" -> value * 60 * 60 * 1000
          [] unit = "d" -> value * 24 * 60 * 60 * 1000
          [] OTHER -> 60 * 1000

\* A key made of the subject alone.
LimitKeySubjectOnly(key, config) == key

LimitKey(key, config) == key \o <<":">> \o JSONStringify(config)

\* store.set(k, v)
MapSet(store, k, v) == [x \in DOMAIN store \cup {k} |-> IF x = k THEN v ELSE store[x]]

\* A limiter that blocks one request late (> in place of >=).
checkLimitOneLate(key, config, store, t) ==
    LET limitKey == key \o <<":">> \o JSONStringify(config)
        windowMs == parseWindow(config.window)
    IN  IF limitKey \notin DOMAIN store \/ t > store[limitKey].resetTime
        THEN [blocked |-> FALSE,
              store |-> [x \in DOMAIN store \cup {limitKey} |->
                           IF x = limitKey THEN [count |-> 1, resetTime |-> t + windowMs]
                           ELSE store[x]]]
        ELSE IF store[limitKey].count > config.requests
        THEN [blocked |-> TRUE, store |-> store]
        ELSE [blocked |-> FALSE,
              store |-> [store EXCEPT ![limitKey].count = @ + 1]]

\* A limiter that counts the requests it blocks.
checkLimitCountsBlocked(key, config, store, t) ==
    LET limitKey == key \o <<":">> \o JSONStringify(config)
        windowMs == parseWindow(config.window)
    IN  IF limitKey \notin DOMAIN store \/ t > store[limitKey].resetTime
        THEN [blocked |-> FALSE,
              store |-> [x \in DOMAIN store \cup {limitKey} |->
                           IF x = limitKey THEN [count |-> 1, resetTime |-> t + windowMs]
                           ELSE store[x]]]
        ELSE IF store[limitKey].count >= config.requests
        THEN [blocked |-> TRUE, store |-> [store EXCEPT ![limitKey].count = @ + 1]]
        ELSE [blocked |-> FALSE,
              store |-> [store EXCEPT ![limitKey].count = @ + 1]]

\* A limiter that opens a new window at now = resetTime (>= in place of >).
checkLimitResetsAtBoundary(key, config, store, t) ==
    LET limitKey == key \o <<":">> \o JSONStringify(config)
        windowMs == parseWindow(config.window)
    IN  IF limitKey \notin DOMAIN store \/ t >= store[limitKey].resetTime
        THEN [blocked |-> FALSE,
              store |-> [x \in DOMAIN store \cup {limitKey} |->
                           IF x = limitKey THEN [count |-> 1, resetTime |-> t + windowMs]
                           ELSE store[x]]]
        ELSE IF store[limitKey].count >= config.requests
        THEN [blocked |-> TRUE, store |-> store]
        ELSE [blocked |-> FALSE,
              store |-> [store EXCEPT ![limitKey].count = @ + 1]]

\* A limiter in which a blocked request starts the window again.
checkLimitBlockedExtends(key, config, store, t) ==
    LET limitKey == key \o <<":">> \o JSONStringify(config)
        windowMs == parseWindow(config.window)
    IN  IF limitKey \notin DOMAIN store \/ t > store[limitKey].resetTime
        THEN [blocked |-> FALSE,
              store |-> [x \in DOMAIN store \cup {limitKey} |->
                           IF x = limitKey THEN [count |-> 1, resetTime |-> t + windowMs]
                           ELSE store[x]]]
        ELSE IF store[limitKey].count >= config.requests
        THEN [blocked |-> TRUE, store |-> [store EXCEPT ![limitKey].resetTime = t + windowMs]]
        ELSE [blocked |-> FALSE,
              store |-> [store EXCEPT ![limitKey].count = @ + 1]]

\* RateLimiter.checkLimit at time t: the value returned and the store it leaves.
checkLimit(key, config, store, t) ==
    LET limitKey == LimitKey(key, config)
        windowMs == parseWindow(config.window)
    IN  IF limitKey \notin DOMAIN store \/ t > store[limitKey].resetTime
        THEN [blocked |-> FALSE,
              store |-> MapSet(store, limitKey, [count |-> 1, resetTime |-> t + windowMs])]
        ELSE IF store[limitKey].count >= config.requests
        THEN [blocked |-> TRUE, store |-> store]
        ELSE [blocked |-> FALSE,
              store |-> [store EXCEPT ![limitKey].count = @ + 1]]

(***************************************************************************)
(* TokenManager: auth is Unset for a null auth, else a session with a      *)
(* sessionId and a userId; attempts is the map tokenRefreshAttempts.       *)
(***************************************************************************)
\* A throttle that lets a sixth attempt through (> in place of >=).
shouldRefreshTokenOneLate(auth, attempts, t) ==
    IF ~IsSet(auth) \/ Get(auth).sessionId = ""
    THEN [result |-> FALSE, attempts |-> attempts]
    ELSE LET userId == Get(auth).userId
         IN  IF userId \in DOMAIN attempts
             THEN IF /\ t - attempts[userId].lastAttempt < 60 * 60 * 1000
                     /\ attempts[userId].count > 5
                  THEN [result |-> FALSE, attempts |-> attempts]
                  ELSE IF t - attempts[userId].lastAttempt >= 60 * 60 * 1000
                  THEN [result |-> TRUE,
                        attempts |-> MapSet(attempts, userId, [count |-> 1, lastAttempt |-> t])]
                  ELSE [result |-> TRUE,
                        attempts |-> [attempts EXCEPT ![userId] =
                                        [count |-> @.count + 1, lastAttempt |-> t]]]
             ELSE [result |-> TRUE,
                   attempts |-> MapSet(attempts, userId, [count |-> 1, lastAttempt |-> t])]

\* A throttle in which a refused attempt moves lastAttempt as well.
shouldRefreshTokenRefusedTouches(auth, attempts, t) ==
    IF ~IsSet(auth) \/ Get(auth).sessionId = ""
    THEN [result |-> FALSE, attempts |-> attempts]
    ELSE LET userId == Get(auth).userId
         IN  IF userId \in DOMAIN attempts
             THEN IF /\ t - attempts[userId].lastAttempt < 60 * 60 * 1000
                     /\ attempts[userId].count >= 5
                  THEN [result |-> FALSE,
                        attempts |-> [attempts EXCEPT ![userId].lastAttempt = t]]
                  ELSE IF t - attempts[userId].lastAttempt >= 60 * 60 * 1000
                  THEN [result |-> TRUE,
                        attempts |-> MapSet(attempts, userId, [count |-> 1, lastAttempt |-> t])]
                  ELSE [result |-> TRUE,
                        attempts |-> [attempts EXCEPT ![userId] =
                                        [count |-> @.count + 1, lastAttempt |-> t]]]
             ELSE [result |-> TRUE,
                   attempts |-> MapSet(attempts, userId, [count |-> 1, lastAttempt |-> t])]

\* TokenManager.shouldRefreshToken at time t: the value returned and the map
\* it leaves.
shouldRefreshToken(auth, attempts, t) ==
    IF ~IsSet(auth) \/ Get(auth).sessionId = ""
    THEN [result |-> FALSE, attempts |-> attempts]
    ELSE LET userId == Get(auth).userId
         IN  IF userId \in DOMAIN attempts
             THEN IF /\ t - attempts[userId].lastAttempt < 60 * 60 * 1000
                     /\ attempts[userId].count >= 5
                  THEN [result |-> FALSE, attempts |-> attempts]
                  ELSE IF t - attempts[userId].lastAttempt >= 60 * 60 * 1000
                  THEN [result |-> TRUE,
                        attempts |-> MapSet(attempts, userId, [count |-> 1, lastAttempt |-> t])]
                  ELSE [result |-> TRUE,
                        attempts |-> [attempts EXCEPT ![userId] =
                                        [count |-> @.count + 1, lastAttempt |-> t]]]
             ELSE [result |-> TRUE,
                   attempts |-> MapSet(attempts, userId, [count |-> 1, lastAttempt |-> t])]

(***************************************************************************)
(* SecurityError and its subclasses                                        *)
(***************************************************************************)
SecurityError(message, statusCode, code) ==
    [kind |-> "SecurityError", message |-> message, statusCode |-> statusCode, code |-> code]

AuthenticationError == SecurityError(<<"Authentication required">>, 401, "AUTH_REQUIRED")
AuthorizationError(msg) == SecurityError(msg, 403, "INSUFFICIENT_PERMISSIONS")
\* The rate-limit error with the status of the other policy errors.
RateLimitErrorForbidden ==
    SecurityError(<<"Rate limit exceeded">>, 403, "RATE_LIMIT_EXCEEDED")

RateLimitError == SecurityError(<<"Rate limit exceeded">>, 429, "RATE_LIMIT_EXCEEDED")
CorsError == SecurityError(<<"CORS policy violation">>, 403, "CORS_VIOLATION")
HttpsError == SecurityError(<<"HTTPS required">>, 403, "HTTPS_REQUIRED")

\* An error that is not of the SecurityError family.
PlainError(name, message) == [kind |-> name, message |-> message]

IsSecurityError(error) == error.kind = "SecurityError"

(***************************************************************************)
(* CorsHandler                                                             *)
(***************************************************************************)
\* The value of a request header that is absent (headers.get gives null).
Null == "(null)"
Truthy(s) == s # Null /\ s # ""

checkOrigin(origin, allowedOrigins) ==
    IF ~Truthy(origin) THEN TRUE
    ELSE Includes(allowedOrigins, origin) \/ Includes(allowedOrigins, "*")

\* headers.set(name, value)
HeaderSet(headers, name, value) ==
    [h \in DOMAIN headers \cup {name} |-> IF h = name THEN value ELSE headers[h]]

\* Header application that prefers the wildcard to the origin of the request.
setCorsHeadersWildcardFirst(response, config, origin) ==
    IF ~IsSet(config.corsOrigins) THEN [type |-> "return", value |-> response]
    ELSE IF ~IsSet(response)
    THEN [type |-> "throw",
          error |-> [kind |-> "TypeError",
                     message |-> <<"Cannot read properties of undefined">>]]
    ELSE LET h0 == Get(response).headers
             h1 == IF Includes(Get(config.corsOrigins), "*")
                   THEN HeaderSet(h0, "Access-Control-Allow-Origin", "*")
                   ELSE IF Truthy(origin) /\ checkOrigin(origin, Get(config.corsOrigins))
                   THEN HeaderSet(h0, "Access-Control-Allow-Origin", origin)
                   ELSE h0
             h2 == HeaderSet(h1, "Access-Control-Allow-Methods",
                             "GET, POST, PUT, DELETE, OPTIONS")
             h3 == HeaderSet(h2, "Access-Control-Allow-Headers",
                             "Content-Type, Authorization")
             h4 == HeaderSet(h3, "Access-Control-Max-Age", "86400")
         IN  [type |-> "return",
              value |-> Some([Get(response) EXCEPT !.headers = h4])]

\* Header application that names the first listed origin when the origin of
\* the request is not allowed.
setCorsHeadersFirstListed(response, config, origin) ==
    IF ~IsSet(config.corsOrigins) THEN [type |-> "return", value |-> response]
    ELSE IF ~IsSet(response)
    THEN [type |-> "throw",
          error |-> [kind |-> "TypeError",
                     message |-> <<"Cannot read properties of undefined">>]]
    ELSE LET h0 == Get(response).headers
             h1 == IF Truthy(origin) /\ checkOrigin(origin, Get(config.corsOrigins))
                   THEN HeaderSet(h0, "Access-Control-Allow-Origin", origin)
                   ELSE IF Includes(Get(config.corsOrigins), "*")
                   THEN HeaderSet(h0, "Access-Control-Allow-Origin", "*")
                   ELSE IF Len(Get(config.corsOrigins)) > 0
                   THEN HeaderSet(h0, "Access-Control-Allow-Origin",
                                  Head(Get(config.corsOrigins)))
                   ELSE h0
             h2 == HeaderSet(h1, "Access-Control-Allow-Methods",
                             "GET, POST, PUT, DELETE, OPTIONS")
             h3 == HeaderSet(h2, "Access-Control-Allow-Headers",
                             "Content-Type, Authorization")
             h4 == HeaderSet(h3, "Access-Control-Max-Age", "86400")
         IN  [type |-> "return",
              value |-> Some([Get(response) EXCEPT !.headers = h4])]

\* setCorsHeaders: the response is Unset when the handler returned nothing;
\* reading response.headers of undefined is a TypeError.
setCorsHeaders(response, config, origin) ==
    IF ~IsSet(config.corsOrigins) THEN [type |-> "return", value |-> response]
    ELSE IF ~IsSet(response)
    THEN [type |-> "throw",
          error |-> PlainError("TypeError", <<"Cannot read properties of undefined">>)]
    ELSE LET h0 == Get(response).headers
             h1 == IF Truthy(origin) /\ checkOrigin(origin, Get(config.corsOrigins))
                   THEN HeaderSet(h0, "Access-Control-Allow-Origin", origin)
                   ELSE IF Includes(Get(config.corsOrigins), "*")
                   THEN HeaderSet(h0, "Access-Control-Allow-Origin", "*")
                   ELSE h0
             h2 == HeaderSet(h1, "Access-Control-Allow-Methods",
                             "GET, POST, PUT, DELETE, OPTIONS")
             h3 == HeaderSet(h2, "Access-Control-Allow-Headers",
                             "Content-Type, Authorization")
             h4 == HeaderSet(h3, "Access-Control-Max-Age", "86400")
         IN  [type |-> "return",
              value |-> Some([Get(response) EXCEPT !.headers = h4])]

(***************************************************************************)
(* PermissionChecker: auth is the value of context.locals.auth(), with     *)
(* publicMetadata.roles and publicMetadata.permissions as sequences.       *)
(***************************************************************************)
\* A role check that wants every role (every in place of some).
hasRoleEvery(auth, roles) ==
    \A i \in 1..Len(roles) : Includes(auth.roles, roles[i])

hasRole(auth, roles) ==
    \E i \in 1..Len(roles) : Includes(auth.roles, roles[i])

hasPermission(auth, permissions) ==
    \A i \in 1..Len(permissions) : Includes(auth.permissions, permissions[i])

isAdmin(auth) == Includes(auth.roles, "admin")

\* roles.join(", ")
RECURSIVE Join(_)
Join(list) ==
    IF list = <<>> THEN <<>>
    ELSE IF Len(list) = 1 THEN list
    ELSE <<Head(list), ", ">> \o Join(Tail(list))

(***************************************************************************)
(* The inputs: configurations, requests and handler outcomes.              *)
(***************************************************************************)
OriginA == "https://a.test"
OriginEvil == "https://evil.test"

IpPolicy == [requests |-> 2, window |-> <<"1", "s">>]
UserPolicy == [requests |-> 1, window |-> <<"1", "s">>]

\* SecurityConfig: every combination of the eight fields.
Configs ==
    [auth : {"none", "optional", "required"},
     adminOnly : BOOLEAN,
     roles : {<<>>, <<"admin", "editor">>},
     permissions : {<<>>, <<"read", "write">>},
     rateLimit : {Unset, Some(UserPolicy)},
     ipRateLimit : {Unset, Some(IpPolicy)},
     corsOrigins : {Unset, Some(<<OriginA>>), Some(<<OriginA, "*">>)},
     httpsOnly : BOOLEAN]

\* What context.locals.auth() gives: a signed-out session has no userId.
SignedOut == [userId |-> <<>>, roles |-> <<>>, permissions |-> <<>>]
Alice == [userId |-> <<"a">>, roles |-> <<"admin">>, permissions |-> <<"read", "write">>]
Bob == [userId |-> <<"b">>, roles |-> <<"editor">>, permissions |-> <<"read">>]
Carol == [userId |-> <<"c">>, roles |-> <<>>, permissions |-> <<"write">>]
AuthResults == {SignedOut, Alice, Bob, Carol}

ClientIps == {<<"1", "0", ".", "0", ".", "0", ".", "1">>}

Requests ==
    [protocol : {"http:", "https:"},
     origin : {Null, OriginA, OriginEvil},
     clientIp : ClientIps,
     authThrows : BOOLEAN,
     auth : AuthResults]

\* A request whose identity lookup throws carries no session.
ValidRequests == {q \in Requests : q.authThrows => q.auth = SignedOut}

Response(status, contentType, body) ==
    [status |-> status, headers |-> ("Content-Type" :> contentType), body |-> body]

\* What the wrapped handler does when awaited.
HandlerOutcomes ==
    {[type |-> "return",
      value |-> Some(Response(200, "application/json", [data |-> "communities"]))],
     [type |-> "return",
      value |-> Some(Response(200, "text/html; charset=utf-8", [data |-> "sign-in page"]))],
     [type |-> "return", value |-> Unset],
     [type |-> "throw", error |-> SecurityError(<<"Forbidden">>, 403, "SECURITY_ERROR")],
     [type |-> "throw", error |-> PlainError("Error", <<"Database unavailable">>)]}

\* response.headers.get("content-type")?.includes("text/html")
IsHtml(response) ==
    /\ "Content-Type" \in DOMAIN response.headers
    /\ response.headers["Content-Type"] \in {"text/html", "text/html; charset=utf-8"}

(***************************************************************************)
(* The gates of Secure(), in the order the code runs them.  A gate takes   *)
(* the state of the call so far (both stores, the value of auth() once it  *)
(* has been read, the error thrown) and gives the state after it.          *)
(***************************************************************************)
\* The identity lookup and the authentication check moved to the top.
GateOrderAuthFirst ==
    <<"auth", "https", "cors", "ip", "admin", "role", "permission", "user">>

\* The CORS check moved in front of the HTTPS check.
GateOrderCorsFirst ==
    <<"cors", "https", "ip", "auth", "admin", "role", "permission", "user">>

\* The IP rate limit moved behind the authentication check.
GateOrderIpAfterAuth ==
    <<"https", "cors", "auth", "ip", "admin", "role", "permission", "user">>

GateOrder ==
    <<"https", "cors", "ip", "auth", "admin", "role", "permission", "user">>

checkUserLimit(userId, config, userStore, t) == checkLimit(userId, config, userStore, t)
checkIpLimit(ip, config, ipStore, t) == checkLimit(ip, config, ipStore, t)

\* const user = auth?.userId ? auth : null
UserOf(auth) == IF IsSet(auth) /\ Get(auth).userId # <<>> THEN auth ELSE Unset

Throw(st, error) == [st EXCEPT !.thrown = Some(error)]

HttpsGate(config, req, t, st) ==
    IF config.httpsOnly /\ req.protocol # "https:" THEN Throw(st, HttpsError) ELSE st

\* A CORS check that takes an empty list of origins for no list.
CorsGateSkipsEmptyList(config, req, t, st) ==
    IF /\ IsSet(config.corsOrigins)
       /\ Len(Get(config.corsOrigins)) > 0
       /\ Truthy(req.origin)
       /\ ~checkOrigin(req.origin, Get(config.corsOrigins))
    THEN Throw(st, CorsError)
    ELSE st

CorsGate(config, req, t, st) ==
    IF /\ IsSet(config.corsOrigins)
       /\ Truthy(req.origin)
       /\ ~checkOrigin(req.origin, Get(config.corsOrigins))
    THEN Throw(st, CorsError)
    ELSE st

IpGate(config, req, t, st) ==
    IF IsSet(config.ipRateLimit)
    THEN LET res == checkIpLimit(req.clientIp, Get(config.ipRateLimit), st.ip, t)
         IN  IF res.blocked
             THEN Throw([st EXCEPT !.ip = res.store], RateLimitError)
             ELSE [st EXCEPT !.ip = res.store]
    ELSE st

\* An authentication check that looks at the session object, not at its userId.
AuthGateAnySession(config, req, t, st) ==
    IF req.authThrows
    THEN Throw(st, PlainError("Error", <<"Identity lookup failed">>))
    ELSE LET st1 == [st EXCEPT !.auth = Some(req.auth)]
         IN  IF config.auth = "required" /\ ~IsSet(st1.auth)
             THEN Throw(st1, AuthenticationError)
             ELSE st1

AuthGate(config, req, t, st) ==
    IF req.authThrows
    THEN Throw(st, PlainError("Error", <<"Identity lookup failed">>))
    ELSE LET st1 == [st EXCEPT !.auth = Some(req.auth)]
         IN  IF config.auth = "required" /\ ~IsSet(UserOf(st1.auth))
             THEN Throw(st1, AuthenticationError)
             ELSE st1

\* An admin check that rejects a request without a principal as well.
AdminGateRejectsAnonymous(config, req, t, st) ==
    IF config.adminOnly /\ ~(IsSet(UserOf(st.auth)) /\ isAdmin(Get(st.auth)))
    THEN Throw(st, AuthorizationError(<<"Admin access required">>))
    ELSE st

\* The admin check left out.
AdminGateSkipped(config, req, t, st) == st

AdminGate(config, req, t, st) ==
    IF config.adminOnly /\ IsSet(UserOf(st.auth)) /\ ~isAdmin(Get(st.auth))
    THEN Throw(st, AuthorizationError(<<"Admin access required">>))
    ELSE st

RoleGate(config, req, t, st) ==
    IF /\ Len(config.roles) > 0
       /\ IsSet(UserOf(st.auth))
       /\ ~hasRole(Get(st.auth), config.roles)
    THEN Throw(st, AuthorizationError(<<"Required roles: ">> \o Join(config.roles)))
    ELSE st

PermissionGate(config, req, t, st) ==
    IF /\ Len(config.permissions) > 0
       /\ IsSet(UserOf(st.auth))
       /\ ~hasPermission(Get(st.auth), config.permissions)
    THEN Throw(st, AuthorizationError(<<"Required permissions: ">> \o Join(config.permissions)))
    ELSE st

\* A user limit that counts the requests without a principal under one key.
UserGateCountsAnonymous(config, req, t, st) ==
    IF IsSet(config.rateLimit)
    THEN LET id == IF IsSet(UserOf(st.auth)) THEN Get(st.auth).userId
                   ELSE <<"a", "n", "o", "n">>
             res == checkUserLimit(id, Get(config.rateLimit), st.usr, t)
         IN  IF res.blocked
             THEN Throw([st EXCEPT !.usr = res.store], RateLimitError)
             ELSE [st EXCEPT !.usr = res.store]
    ELSE st

UserGate(config, req, t, st) ==
    IF IsSet(config.rateLimit) /\ IsSet(UserOf(st.auth))
    THEN LET res == checkUserLimit(Get(st.auth).userId, Get(config.rateLimit), st.usr, t)
         IN  IF res.blocked
             THEN Throw([st EXCEPT !.usr = res.store], RateLimitError)
             ELSE [st EXCEPT !.usr = res.store]
    ELSE st

GateStep(g, config, req, t, st) ==
    CASE g = "https" -> HttpsGate(config, req, t, st)
      [] g = "cors" -> CorsGate(config, req, t, st)
      [] g = "ip" -> IpGate(config, req, t, st)
      [] g = "auth" -> AuthGate(config, req, t, st)
      [] g = "admin" -> AdminGate(config, req, t, st)
      [] g = "role" -> RoleGate(config, req, t, st)
      [] g = "permission" -> PermissionGate(config, req, t, st)
      [] g = "user" -> UserGate(config, req, t, st)

\* The gates run one after the other; a throw skips the ones that remain.
RECURSIVE RunGates(_, _, _, _, _)
RunGates(gates, config, req, t, st) ==
    IF gates = <<>> \/ IsSet(st.thrown) THEN st
    ELSE RunGates(Tail(gates), config, req, t, GateStep(Head(gates), config, req, t, st))

\* The catch block of Secure(): a SecurityError becomes a JSON response with
\* CORS headers, any other error is thrown again.
SecurityErrorResponse(error) ==
    Response(error.statusCode, "application/json",
             [error |-> error.code, message |-> error.message])

\* A catch block that throws every error again.
CatchRethrows(error, config, origin) == [type |-> "throw", error |-> error]

\* A catch block that answers every other error with a JSON 500.
CatchSwallows(error, config, origin) ==
    IF IsSecurityError(error)
    THEN setCorsHeaders(Some(SecurityErrorResponse(error)), config, origin)
    ELSE setCorsHeaders(
             Some(Response(500, "application/json",
                           [error |-> "INTERNAL_ERROR", message |-> error.message])),
             config, origin)

\* A catch block that returns the error response without the CORS headers.
CatchWithoutCors(error, config, origin) ==
    IF IsSecurityError(error)
    THEN [type |-> "return", value |-> Some(SecurityErrorResponse(error))]
    ELSE [type |-> "throw", error |-> error]

Catch(error, config, origin) ==
    IF IsSecurityError(error)
    THEN setCorsHeaders(Some(SecurityErrorResponse(error)), config, origin)
    ELSE [type |-> "throw", error |-> error]

\* A safety net that looks for an HTML response only, not for a missing one.
AfterHandlerHtmlOnly(outcome, config, req, auth) ==
    IF outcome.type = "throw" THEN Catch(outcome.error, config, req.origin)
    ELSE LET response == outcome.value
             forced ==
                 /\ IsSet(response) /\ IsHtml(Get(response))
                 /\ config.auth = "required"
                 /\ ~IsSet(UserOf(auth))
             res == IF forced
                    THEN setCorsHeaders(
                             Some(Response(401, "application/json",
                                           [error |-> "AUTH_REQUIRED",
                                            message |-> <<"Authentication required">>])),
                             config, req.origin)
                    ELSE setCorsHeaders(response, config, req.origin)
         IN  IF res.type = "throw" THEN Catch(res.error, config, req.origin) ELSE res

\* What Secure() does with the outcome of the awaited handler: the forced
\* 401, the CORS headers, and the catch block around both.
AfterHandler(outcome, config, req, auth) ==
    IF outcome.type = "throw" THEN Catch(outcome.error, config, req.origin)
    ELSE LET response == outcome.value
             forced ==
                 /\ ~IsSet(response) \/ IsHtml(Get(response))
                 /\ config.auth = "required"
                 /\ ~IsSet(UserOf(auth))
             res == IF forced
                    THEN setCorsHeaders(
                             Some(Response(401, "application/json",
                                           [error |-> "AUTH_REQUIRED",
                                            message |-> <<"Authentication required">>])),
                             config, req.origin)
                    ELSE setCorsHeaders(response, config, req.origin)
         IN  IF res.type = "throw" THEN Catch(res.error, config, req.origin) ELSE res

(***************************************************************************)
(* The auth middleware (src/middleware.ts).  A URL is its pathname and the *)
(* names of its query parameters; what auth() does is its outcome: it      *)
(* returns {isAuthenticated} or throws an error {message, code}.  A        *)
(* message is a sequence of words, and message.includes(text) is the test  *)
(* for text as a run of consecutive words of it.                           *)
(***************************************************************************)
PublicRoutes == <<"/", "/clock-error", "/404">>

\* createRouteMatcher(["/", "/clock-error", "/404"])
isPublicRoute(url) == Includes(PublicRoutes, url.pathname)

\* error.message?.includes(text)
MessageIncludes(error, text) ==
    \E i \in 0..(Len(error.message) - Len(text)) :
        SubSeq(error.message, i + 1, i + Len(text)) = text

isClockSkewError(error) ==
    \/ MessageIncludes(error, <<"token-iat-in-the-future">>)
    \/ MessageIncludes(error, <<"Clock", "skew">>)
    \/ MessageIncludes(error, <<"JWT", "issued", "at", "date", "claim">>)
    \/ error.code = "TOKEN_IAT_IN_THE_FUTURE"
    \/ error.code = "CLERK_JWT_EXPIRED"

isInfiniteLoopError(error) ==
    \/ MessageIncludes(error, <<"infinite", "redirect", "loop">>)
    \/ MessageIncludes(error, <<"Clerk", "instance", "keys", "do", "not", "match">>)

\* What the middleware gives back: nothing (the request goes on to the
\* page), context.redirect(to) or redirectToSignIn(); caught tells that it
\* came out of the catch block.
PassOn(caught) == [kind |-> "next", caught |-> caught]
Redirect(pathname, params, caught) ==
    [kind |-> "redirect", to |-> [pathname |-> pathname, params |-> params],
     caught |-> caught]
RedirectToSignIn == [kind |-> "signIn", caught |-> FALSE]

\* A catch block that looks for the bypass parameter before the build mode.
MiddlewareCatchBypassFirst(error, url, prod) ==
    IF isClockSkewError(error) \/ isInfiniteLoopError(error)
    THEN Redirect("/clock-error", {"from"}, TRUE)
    ELSE IF "bypass-auth" \in url.params THEN PassOn(TRUE)
    ELSE IF prod THEN Redirect("/", {}, TRUE)
    ELSE Redirect("/clock-error", {"from"}, TRUE)

\* The catch block of onRequest; prod is import.meta.env.PROD.
MiddlewareCatch(error, url, prod) ==
    IF isClockSkewError(error) \/ isInfiniteLoopError(error)
    THEN Redirect("/clock-error", {"from"}, TRUE)
    ELSE IF prod THEN Redirect("/", {}, TRUE)
    ELSE IF "bypass-auth" \in url.params THEN PassOn(TRUE)
    ELSE Redirect("/clock-error", {"from"}, TRUE)

\* onRequest: auth() is called first, inside the try block; then the public
\* routes return, then the two redirects.
onRequest(auth, url, prod) ==
    IF auth.type = "throw" THEN MiddlewareCatch(auth.error, url, prod)
    ELSE IF isPublicRoute(url) THEN PassOn(FALSE)
    ELSE IF auth.isAuthenticated /\ url.pathname = "/"
    THEN Redirect("/dashboard", {}, FALSE)
    ELSE IF ~auth.isAuthenticated THEN RedirectToSignIn
    ELSE PassOn(FALSE)

\* The middleware between two requests of a browser.
MiddlewareIdle(prod, session) ==
    [prod |-> prod, session |-> session, request |-> Unset, result |-> Unset,
     cause |-> Unset, hops |-> 0]

NoSession == [type |-> "return", isAuthenticated |-> FALSE]

(***************************************************************************)
(* UserActivityService.trackActivity                                       *)
(* (src/lib/database/user-activity-service.ts).  The table userActivity is *)
(* a sequence of rows; each of findFirst, update and create is one         *)
(* operation of the store, and a call is suspended at each await.          *)
(***************************************************************************)
\* data.resourceId as a condition: undefined and 0 are falsy.
TruthyId(resourceId) == IsSet(resourceId) /\ Get(resourceId) # 0

\* prisma.userActivity.findFirst({where: {userId, activityType, resourceId,
\* resourceType}}): a filter that is undefined leaves its field free.
Matches(row, data) ==
    /\ row.userId = data.userId
    /\ row.activityType = data.activityType
    /\ IsSet(data.resourceId) => row.resourceId = data.resourceId
    /\ IsSet(data.resourceType) => row.resourceType = data.resourceType

findFirst(table, data) ==
    IF \E i \in 1..Len(table) : Matches(table[i], data)
    THEN Some(table[CHOOSE i \in 1..Len(table) :
                       /\ Matches(table[i], data)
                       /\ \A j \in 1..(i - 1) : ~Matches(table[j], data)])
    ELSE Unset

\* data.metadata || {}
MetadataOf(data) == IF IsSet(data.metadata) THEN Get(data.metadata) ELSE "{}"

\* prisma.userActivity.update({where: {id}, data: {createdAt, metadata}})
update(table, id, createdAt, metadata) ==
    [i \in 1..Len(table) |->
        IF table[i].id = id
        THEN [table[i] EXCEPT !.createdAt = createdAt, !.metadata = metadata]
        ELSE table[i]]

\* prisma.userActivity.create({data}): the store gives the id and createdAt.
create(table, data, t) ==
    Append(table,
           [id |-> Len(table) + 1, userId |-> data.userId,
            activityType |-> data.activityType, resourceId |-> data.resourceId,
            resourceType |-> data.resourceType, metadata |-> MetadataOf(data),
            createdAt |-> t])

\* A caller of trackActivity that is not in a call.
NotTracking == [pc |-> "idle", data |-> Unset, existing |-> Unset, stamp |-> 0]
Trackers == {"t1", "t2"}

(***************************************************************************)
(* State                                                                   *)
(***************************************************************************)
VARIABLES
    config,          \* the SecurityConfig given to Secure(config)
    now,             \* Date.now()
    userRateLimits,  \* Map limitKey -> {count, resetTime}
    ipRateLimits,    \* Map limitKey -> {count, resetTime}
    call,            \* per slot: one call of the guarded handler
    tokenRefreshAttempts,  \* Map userId -> {count, lastAttempt}
    mw,              \* the auth middleware: build mode, session, request in hand, its result
    userActivity,    \* the table userActivity of the store
    tracks,          \* per caller: one call of trackActivity
    checks,          \* history: the calls of checkUserLimit / checkIpLimit, per store, subject and policy
    served,          \* history: the calls of the guarded handler that have settled
    refreshes        \* history: the calls of shouldRefreshToken, per auth

vars == <<config, now, userRateLimits, ipRateLimits, call, tokenRefreshAttempts,
          mw, userActivity, tracks, checks, served, refreshes>>

\* The calls of the guarded handler that can be in progress at once.
Slots == {"c1"}

EmptyStore == [k \in {} |-> 0]

\* pc: "idle" no call; "awaiting" the wrapped handler was invoked and is
\* awaited; "returned" / "threw" the guarded handler has settled.
Idle ==
    [pc |-> "idle", req |-> Unset, auth |-> Unset, invoked |-> 0,
     handler |-> Unset, result |-> Unset]

Init ==
    /\ config \in Configs
    /\ now = 0
    /\ userRateLimits = EmptyStore
    /\ ipRateLimits = EmptyStore
    /\ call = [r \in Slots |-> Idle]
    /\ tokenRefreshAttempts = EmptyStore
    /\ mw = MiddlewareIdle(FALSE, NoSession)
    /\ userActivity = <<>>
    /\ tracks = [p \in Trackers |-> NotTracking]
    /\ checks = <<>>
    /\ served = <<>>
    /\ refreshes = <<>>

Settled(res) == IF res.type = "throw" THEN "threw" ELSE "returned"

\* A call whose counter updates are lost while another call is in progress,
\* as when two threads read and write a counter at the same time.
SecureCallLostUpdate(r, req) ==
    /\ call[r].pc = "idle"
    /\ LET st == RunGates(GateOrder, config, req, now,
                          [ip |-> ipRateLimits, usr |-> userRateLimits,
                           auth |-> Unset, thrown |-> Unset])
           raced == \E o \in DOMAIN call \ {r} : call[o].pc = "awaiting"
       IN  /\ ipRateLimits' = IF raced THEN ipRateLimits ELSE st.ip
           /\ userRateLimits' = IF raced THEN userRateLimits ELSE st.usr
           /\ call' = [call EXCEPT ![r] =
                IF IsSet(st.thrown)
                THEN LET res == Catch(Get(st.thrown), config, req.origin)
                     IN  [pc |-> Settled(res), req |-> Some(req), auth |-> st.auth,
                          invoked |-> 0, handler |-> Unset, result |-> Some(res)]
                ELSE [pc |-> "awaiting", req |-> Some(req), auth |-> st.auth,
                      invoked |-> 1, handler |-> Unset, result |-> Unset]]
    /\ UNCHANGED <<config, now, tokenRefreshAttempts, mw, userActivity, tracks>>

\* descriptor.value up to the await: the eight gates, then either the catch
\* block or the invocation of the wrapped handler.
SecureCall(r, req) ==
    /\ call[r].pc = "idle"
    /\ LET st == RunGates(GateOrder, config, req, now,
                          [ip |-> ipRateLimits, usr |-> userRateLimits,
                           auth |-> Unset, thrown |-> Unset])
       IN  /\ ipRateLimits' = st.ip
           /\ userRateLimits' = st.usr
           /\ call' = [call EXCEPT ![r] =
                IF IsSet(st.thrown)
                THEN LET res == Catch(Get(st.thrown), config, req.origin)
                     IN  [pc |-> Settled(res), req |-> Some(req), auth |-> st.auth,
                          invoked |-> 0, handler |-> Unset, result |-> Some(res)]
                ELSE [pc |-> "awaiting", req |-> Some(req), auth |-> st.auth,
                      invoked |-> 1, handler |-> Unset, result |-> Unset]]
    /\ UNCHANGED <<config, now, tokenRefreshAttempts, mw, userActivity, tracks>>

\* The awaited handler settles with outcome h; descriptor.value runs to its end.
HandlerSettles(r, h) ==
    /\ call[r].pc = "awaiting"
    /\ LET res == AfterHandler(h, config, Get(call[r].req), call[r].auth)
       IN  call' = [call EXCEPT ![r].pc = Settled(res),
                                ![r].handler = Some(h),
                                ![r].result = Some(res)]
    /\ UNCHANGED <<config, now, userRateLimits, ipRateLimits, tokenRefreshAttempts, mw, userActivity, tracks>>

\* The caller has received the response or the exception.
Deliver(r) ==
    /\ call[r].pc \in {"returned", "threw"}
    /\ call' = [call EXCEPT ![r] = Idle]
    /\ UNCHANGED <<config, now, userRateLimits, ipRateLimits, tokenRefreshAttempts, mw, userActivity, tracks>>

\* Date.now() advances by d, at most max times.
Tick(d, max) ==
    /\ now < max * d
    /\ now' = now + d
    /\ UNCHANGED <<config, userRateLimits, ipRateLimits, call, tokenRefreshAttempts, mw, userActivity, tracks>>

Next ==
    \/ \E r \in Slots, req \in ValidRequests :
          SecureCall(r, req) /\ UNCHANGED <<checks, served, refreshes>>
    \/ \E r \in Slots, h \in HandlerOutcomes :
          HandlerSettles(r, h) /\ UNCHANGED <<checks, served, refreshes>>
    \/ \E r \in Slots : Deliver(r) /\ UNCHANGED <<checks, served, refreshes>>
    \/ \E d \in TickSteps : Tick(d, MaxTicks) /\ UNCHANGED <<checks, served, refreshes>>

Spec == Init /\ [][Next]_vars

(***************************************************************************)
(* What the claims say of one request, in terms of the request, the        *)
(* configuration and the state the call starts in.                         *)
(***************************************************************************)
SetOf(list) == {list[i] : i \in 1..Len(list)}

HasUser(req) == ~req.authThrows /\ req.auth.userId # <<>>

\* Gate g rejects request req in the current state.
Fails(g, req) ==
    CASE g = "https" -> config.httpsOnly /\ req.protocol # "https:"
      [] g = "cors" ->
            /\ IsSet(config.corsOrigins)
            /\ req.origin # Null
            /\ req.origin \notin SetOf(Get(config.corsOrigins))
            /\ "*" \notin SetOf(Get(config.corsOrigins))
      [] g = "ip" ->
            /\ IsSet(config.ipRateLimit)
            /\ checkLimit(req.clientIp, Get(config.ipRateLimit), ipRateLimits, now).blocked
      [] g = "auth" ->
            ~req.authThrows /\ config.auth = "required" /\ req.auth.userId = <<>>
      [] g = "admin" ->
            config.adminOnly /\ HasUser(req) /\ "admin" \notin SetOf(req.auth.roles)
      [] g = "role" ->
            /\ config.roles # <<>>
            /\ HasUser(req)
            /\ SetOf(config.roles) \cap SetOf(req.auth.roles) = {}
      [] g = "permission" ->
            /\ HasUser(req)
            /\ ~(SetOf(config.permissions) \subseteq SetOf(req.auth.permissions))
      [] g = "user" ->
            /\ IsSet(config.rateLimit)
            /\ HasUser(req)
            /\ checkLimit(req.auth.userId, Get(config.rateLimit), userRateLimits, now).blocked

\* The order of the gates that the specification fixes.
FixedOrder ==
    <<"https", "cors", "ip", "auth", "admin", "role", "permission", "user">>

\* The identity lookup happens in the authentication step.
LookupIndex == CHOOSE i \in 1..Len(FixedOrder) : FixedOrder[i] = "auth"

\* Gate number i is reached and rejects: no earlier gate rejected, and the
\* identity lookup, when it comes before gate i, did not throw.
RejectsAt(i, req) ==
    /\ Fails(FixedOrder[i], req)
    /\ \A j \in 1..(i - 1) : ~Fails(FixedOrder[j], req)
    /\ i >= LookupIndex => ~req.authThrows

Rejected(req) == \E i \in 1..Len(FixedOrder) : RejectsAt(i, req)
FirstFailing(req) == FixedOrder[CHOOSE i \in 1..Len(FixedOrder) : RejectsAt(i, req)]

\* The (status, error) pair of each gate.
GatePair(g) ==
    CASE g = "https" -> <<403, "HTTPS_REQUIRED">>
      [] g = "cors" -> <<403, "CORS_VIOLATION">>
      [] g \in {"ip", "user"} -> <<429, "RATE_LIMIT_EXCEEDED">>
      [] g = "auth" -> <<401, "AUTH_REQUIRED">>
      [] g \in {"admin", "role", "permission"} -> <<403, "INSUFFICIENT_PERMISSIONS">>

\* A step in which slot r takes a new request through the gates.
Enters(r) == call[r].pc = "idle" /\ call'[r].pc # "idle"

\* The call of slot r ended in a response that reports a policy error.
IsErrorResponse(c) ==
    /\ c.pc = "returned"
    /\ IsSet(Get(c.result).value)
    /\ "error" \in DOMAIN Get(Get(c.result).value).body
ResponseOf(c) == Get(Get(c.result).value)

\* C1: a policy-error response of the guard carries the error code of the
\* first gate, in the order HTTPS, CORS, IP rate limit, authentication,
\* admin, role, permission, user rate limit, that rejects the request.
C1_FirstFailingGate ==
    [][\A r \in Slots :
          (Enters(r) /\ IsErrorResponse(call'[r])) =>
              /\ Rejected(Get(call'[r].req))
              /\ ResponseOf(call'[r]).body.error
                    = GatePair(FirstFailing(Get(call'[r].req)))[2]]_vars

\* An http request with a disallowed Origin under httpsOnly and a restricted
\* origin list was answered HTTPS_REQUIRED.
C1_Witness ==
    \E r \in Slots :
        /\ config.httpsOnly
        /\ config.corsOrigins = Some(<<OriginA>>)
        /\ IsErrorResponse(call[r])
        /\ Get(call[r].req).protocol = "http:"
        /\ Get(call[r].req).origin = OriginEvil
        /\ ResponseOf(call[r]).body.error = "HTTPS_REQUIRED"

\* C2: the wrapped handler is invoked at most once per request, only by
\* the step that took the request through all eight gates with none of
\* them rejecting; a request that a gate rejects ends in the failure
\* outcome (an error response, handler not invoked), which nothing changes
\* until the response is delivered.
C2_HandlerOnlyAfterAllGates ==
    [][\A r \in Slots :
          /\ call'[r].invoked <= 1
          /\ call'[r].invoked > call[r].invoked =>
                /\ Enters(r)
                /\ \A i \in 1..Len(FixedOrder) : ~Fails(FixedOrder[i], Get(call'[r].req))
          /\ (Enters(r) /\ Rejected(Get(call'[r].req))) =>
                IsErrorResponse(call'[r]) /\ call'[r].invoked = 0
          /\ (call[r].invoked = 0 /\ IsErrorResponse(call[r])) =>
                call'[r] \in {call[r], Idle}]_vars

\* The handler was invoked for a request under a configuration that sets
\* every gate.
C2_Witness ==
    \E r \in Slots :
        /\ call[r].invoked = 1
        /\ config.httpsOnly /\ IsSet(config.corsOrigins)
        /\ IsSet(config.ipRateLimit) /\ IsSet(config.rateLimit)
        /\ config.auth = "required" /\ config.adminOnly
        /\ config.roles # <<>> /\ config.permissions # <<>>

PolicyPairs ==
    {<<403, "HTTPS_REQUIRED">>, <<403, "CORS_VIOLATION">>,
     <<429, "RATE_LIMIT_EXCEEDED">>, <<401, "AUTH_REQUIRED">>,
     <<403, "INSUFFICIENT_PERMISSIONS">>}

\* The call ended in an error response that the guard made itself: a gate
\* rejected the request, or the handler returned and the guard forced a 401.
IsPolicyFailure(c) ==
    /\ IsErrorResponse(c)
    /\ c.invoked = 0 \/ Get(c.handler).type = "return"

IsJsonError(resp) ==
    /\ "Content-Type" \in DOMAIN resp.headers
    /\ resp.headers["Content-Type"] = "application/json"
    /\ DOMAIN resp.body = {"error", "message"}

\* C7: every policy-failure response of the guard is JSON with a body
\* {error, message} and one of the five (status, error) pairs, and the
\* response to a rejected request carries the pair of the rejecting gate.
C7_StatusCodePairs ==
    [][\A r \in Slots :
          /\ IsPolicyFailure(call'[r]) =>
                /\ IsJsonError(ResponseOf(call'[r]))
                /\ <<ResponseOf(call'[r]).status, ResponseOf(call'[r]).body.error>>
                      \in PolicyPairs
          /\ (Enters(r) /\ Rejected(Get(call'[r].req))) =>
                /\ IsPolicyFailure(call'[r])
                /\ <<ResponseOf(call'[r]).status, ResponseOf(call'[r]).body.error>>
                      = GatePair(FirstFailing(Get(call'[r].req)))]_vars

\* A request was answered 429 / RATE_LIMIT_EXCEEDED.
C7_Witness ==
    \E r \in Slots :
        /\ IsPolicyFailure(call[r])
        /\ ResponseOf(call[r]).status = 429
        /\ ResponseOf(call[r]).body.error = "RATE_LIMIT_EXCEEDED"

\* The SecurityError that each gate raises.
GateError(g) ==
    CASE g = "https" -> HttpsError
      [] g = "cors" -> CorsError
      [] g \in {"ip", "user"} -> RateLimitError
      [] g = "auth" -> AuthenticationError
      [] g = "admin" -> AuthorizationError(<<"Admin access required">>)
      [] g = "role" -> AuthorizationError(<<"Required roles: ">> \o Join(config.roles))
      [] g = "permission" ->
            AuthorizationError(<<"Required permissions: ">> \o Join(config.permissions))

\* Response resp reports SecurityError e, with the fixed CORS headers when
\* the configuration lists origins.
Reports(resp, e) ==
    /\ resp.status = e.statusCode
    /\ resp.body = [error |-> e.code, message |-> e.message]
    /\ IsSet(config.corsOrigins) =>
          /\ {"Access-Control-Allow-Methods", "Access-Control-Allow-Headers",
              "Access-Control-Max-Age"} \subseteq DOMAIN resp.headers
          /\ resp.headers["Access-Control-Allow-Methods"] = "GET, POST, PUT, DELETE, OPTIONS"
          /\ resp.headers["Access-Control-Allow-Headers"] = "Content-Type, Authorization"
          /\ resp.headers["Access-Control-Max-Age"] = "86400"

\* A step in which the handler awaited by slot r settles.
Settles(r) == call[r].pc = "awaiting" /\ call'[r].pc # "awaiting"

\* C8: no SecurityError leaves the guarded handler as an exception; the
\* SecurityError raised by a gate, or thrown by the wrapped handler, comes
\* back as a response with its status, its code and message as the body, and
\* the CORS headers.
C8_SecurityErrorsBecomeResponses ==
    [][\A r \in Slots :
          /\ call'[r].pc = "threw" => ~IsSecurityError(Get(call'[r].result).error)
          /\ (Enters(r) /\ Rejected(Get(call'[r].req))) =>
                /\ IsErrorResponse(call'[r])
                /\ Reports(ResponseOf(call'[r]), GateError(FirstFailing(Get(call'[r].req))))
          /\ (/\ Settles(r)
              /\ Get(call'[r].handler).type = "throw"
              /\ IsSecurityError(Get(call'[r].handler).error)) =>
                /\ IsErrorResponse(call'[r])
                /\ Reports(ResponseOf(call'[r]), Get(call'[r].handler).error)]_vars

\* The handler threw a SecurityError under a configuration that lists
\* origins, and the caller got its response.
C8_Witness ==
    \E r \in Slots :
        /\ IsSet(config.corsOrigins)
        /\ call[r].pc = "returned"
        /\ IsSet(call[r].handler)
        /\ Get(call[r].handler).type = "throw"
        /\ IsSecurityError(Get(call[r].handler).error)
        /\ ResponseOf(call[r]).body.error = "SECURITY_ERROR"

\* C9: when the wrapped handler throws an error that is not a SecurityError,
\* the guarded handler throws that very error and returns no response.
C9_OtherErrorsPropagate ==
    [][\A r \in Slots :
          (/\ Settles(r)
           /\ Get(call'[r].handler).type = "throw"
           /\ ~IsSecurityError(Get(call'[r].handler).error)) =>
              /\ call'[r].pc = "threw"
              /\ Get(call'[r].result)
                    = [type |-> "throw", error |-> Get(call'[r].handler).error]]_vars

\* The handler threw a plain Error and the guarded handler threw it on.
C9_Witness ==
    \E r \in Slots :
        /\ call[r].pc = "threw"
        /\ call[r].invoked = 1
        /\ IsSet(call[r].handler)
        /\ Get(call[r].handler).type = "throw"
        /\ Get(call[r].handler).error.kind = "Error"

\* The call was rejected with the message of the role gate / permission gate.
RoleRejection(c) ==
    IsErrorResponse(c) /\ c.invoked = 0
    /\ Head(ResponseOf(c).body.message) = "Required roles: "
PermissionRejection(c) ==
    IsErrorResponse(c) /\ c.invoked = 0
    /\ Head(ResponseOf(c).body.message) = "Required permissions: "

\* Request req gets as far as gate number i with a resolved principal.
Reaches(i, req) ==
    /\ HasUser(req)
    /\ \A j \in 1..(i - 1) : ~Fails(FixedOrder[j], req)

RoleIndex == CHOOSE i \in 1..Len(FixedOrder) : FixedOrder[i] = "role"
PermissionIndex == CHOOSE i \in 1..Len(FixedOrder) : FixedOrder[i] = "permission"

\* C10: a principal that reaches the role gate of a configuration with
\* roles passes it iff it holds at least one of them, and a principal that
\* reaches the permission gate passes it iff it holds all the permissions
\* of the configuration; the rejection is INSUFFICIENT_PERMISSIONS.
C10_RoleAnyPermissionAll ==
    [][\A r \in Slots :
          Enters(r) =>
              LET req == Get(call'[r].req)
              IN  /\ (Reaches(RoleIndex, req) /\ config.roles # <<>>) =>
                        (~RoleRejection(call'[r])
                            <=> \E x \in SetOf(config.roles) : x \in SetOf(req.auth.roles))
                  /\ Reaches(PermissionIndex, req) =>
                        (~PermissionRejection(call'[r])
                            <=> \A x \in SetOf(config.permissions) :
                                   x \in SetOf(req.auth.permissions))
                  /\ (RoleRejection(call'[r]) \/ PermissionRejection(call'[r])) =>
                        ResponseOf(call'[r]).body.error = "INSUFFICIENT_PERMISSIONS"]_vars

\* The principal that holds only "editor" and "read" passed the role gate of
\* {"admin", "editor"} and was rejected by the permission gate of
\* {"read", "write"}.
C10_Witness ==
    \E r \in Slots :
        /\ config.roles = <<"admin", "editor">>
        /\ config.permissions = <<"read", "write">>
        /\ IsSet(call[r].req)
        /\ Get(call[r].req).auth.roles = <<"editor">>
        /\ Get(call[r].req).auth.permissions = <<"read">>
        /\ PermissionRejection(call[r])
        /\ ResponseOf(call[r]).body.error = "INSUFFICIENT_PERMISSIONS"

BothLimits == IsSet(config.ipRateLimit) /\ IsSet(config.rateLimit)

\* C5 as stated: under a configuration with both limits, a request without
\* a principal changes no counter of the user store, and a request of a
\* principal changes no counter of the IP store.
C5_AsStated ==
    [][\A r \in Slots :
          (Enters(r) /\ BothLimits) =>
              /\ ~HasUser(Get(call'[r].req)) => userRateLimits' = userRateLimits
              /\ HasUser(Get(call'[r].req)) => ipRateLimits' = ipRateLimits]_vars

IpIndex == CHOOSE i \in 1..Len(FixedOrder) : FixedOrder[i] = "ip"

\* C5 (amended): under a configuration with both limits, a request without
\* a principal changes no counter of the user store; every request, with a
\* principal or not, that gets past HTTPS and CORS changes the IP store by
\* exactly one check of its own client IP, and no other step changes it; the
\* user store only ever holds keys of user ids and the IP store keys of
\* client IPs.
C5_StoresIndependent ==
    [][/\ \A r \in Slots :
            (Enters(r) /\ BothLimits) =>
                LET req == Get(call'[r].req)
                IN  /\ ~HasUser(req) => userRateLimits' = userRateLimits
                    /\ ipRateLimits' =
                          IF \A j \in 1..(IpIndex - 1) : ~Fails(FixedOrder[j], req)
                          THEN checkLimit(req.clientIp, Get(config.ipRateLimit),
                                          ipRateLimits, now).store
                          ELSE ipRateLimits
       /\ (\A r \in Slots : ~Enters(r)) =>
              ipRateLimits' = ipRateLimits /\ userRateLimits' = userRateLimits
       /\ BothLimits =>
              /\ DOMAIN userRateLimits' \subseteq
                    {LimitKey(a.userId, Get(config.rateLimit)) : a \in AuthResults \ {SignedOut}}
              /\ DOMAIN ipRateLimits' \subseteq
                    {LimitKey(ip, Get(config.ipRateLimit)) : ip \in ClientIps}]_vars

\* A principal was stopped by the user limit while its requests had used up
\* the budget of its client IP.
C5_Witness ==
    \E r \in Slots :
        /\ BothLimits
        /\ IsErrorResponse(call[r])
        /\ HasUser(Get(call[r].req))
        /\ ResponseOf(call[r]).body.error = "RATE_LIMIT_EXCEEDED"
        /\ LimitKey(Get(call[r].req).auth.userId, Get(config.rateLimit))
              \in DOMAIN userRateLimits
        /\ \E k \in DOMAIN ipRateLimits :
              ipRateLimits[k].count = Get(config.ipRateLimit).requests

\* The number of gate g in the fixed order.
IndexOf(g) == CHOOSE i \in 1..Len(FixedOrder) : FixedOrder[i] = g

\* C20: a request rejected by the HTTPS or the CORS gate leaves both
\* rate-limit stores as they were and the identity lookup uncalled; a
\* request blocked by the IP gate leaves the identity lookup uncalled (a
\* lookup that would throw does not get to); a request rejected by the IP,
\* authentication, admin, role or permission gate leaves the user store as
\* it was.
C20_RejectionFrame ==
    [][\A r \in Slots :
          Enters(r) =>
              LET req == Get(call'[r].req)
                  AtGate(g) == RejectsAt(IndexOf(g), req)
              IN  /\ (AtGate("https") \/ AtGate("cors")) =>
                        /\ ipRateLimits' = ipRateLimits
                        /\ userRateLimits' = userRateLimits
                  /\ (AtGate("https") \/ AtGate("cors") \/ AtGate("ip")) =>
                        /\ call'[r].auth = Unset
                        /\ IsErrorResponse(call'[r])
                  /\ (\E g \in {"ip", "auth", "admin", "role", "permission"} : AtGate(g)) =>
                        userRateLimits' = userRateLimits]_vars

\* A request whose identity lookup would have thrown was blocked by the IP
\* gate, under a configuration with a user limit too, and answered 429.
C20_Witness ==
    \E r \in Slots :
        /\ BothLimits
        /\ IsErrorResponse(call[r])
        /\ Get(call[r].req).authThrows
        /\ call[r].auth = Unset
        /\ ResponseOf(call[r]).body.error = "RATE_LIMIT_EXCEEDED"

\* The configuration restricts the operation to admins, roles or permissions.
Restricted == config.adminOnly \/ config.roles # <<>> \/ config.permissions # <<>>

\* The call of slot r invoked the wrapped handler.
Invoked(c) == c.pc # "idle" /\ c.invoked = 1

\* C26 as stated: under adminOnly, or a non-empty list of roles or
\* permissions, the wrapped handler is never invoked for a request without
\* a principal, whatever config.auth is; under adminOnly it is invoked only
\* for principals that hold the role "admin".
C26_AsStated ==
    \A r \in Slots :
        (Restricted /\ Invoked(call[r])) =>
            /\ HasUser(Get(call[r].req))
            /\ config.adminOnly => "admin" \in SetOf(Get(call[r].req).auth.roles)

\* C26: under adminOnly, or a non-empty list of roles or permissions, the
\* wrapped handler is not invoked for a request without a principal when
\* config.auth is "required"; the admin, role and permission checks apply
\* to principals only, so that a request without a principal is never
\* answered INSUFFICIENT_PERMISSIONS; under adminOnly every principal the
\* handler is invoked for holds the role "admin".
C26_RestrictionsBindPrincipals ==
    \A r \in Slots :
        (Restricted /\ call[r].pc # "idle") =>
            LET req == Get(call[r].req)
            IN  /\ (Invoked(call[r]) /\ config.auth = "required") => HasUser(req)
                /\ (Invoked(call[r]) /\ config.adminOnly /\ HasUser(req)) =>
                      "admin" \in SetOf(req.auth.roles)
                /\ (IsErrorResponse(call[r]) /\ call[r].invoked = 0 /\ ~HasUser(req)) =>
                      ResponseOf(call[r]).body.error # "INSUFFICIENT_PERMISSIONS"

\* Under adminOnly with roles and permissions listed and auth optional, the
\* handler was invoked for a request without a principal.
C26_Witness ==
    \E r \in Slots :
        /\ config.adminOnly /\ config.roles # <<>> /\ config.permissions # <<>>
        /\ config.auth = "optional"
        /\ Invoked(call[r])
        /\ ~Get(call[r].req).authThrows
        /\ Get(call[r].req).auth = SignedOut

(***************************************************************************)
(* The rate limiter on its own: checkUserLimit and checkIpLimit called     *)
(* with any subject and policy, every call recorded in checks.             *)
(***************************************************************************)
Subjects == {<<"a">>, <<"a", ":", "{">>}
Policies ==
    {[requests |-> 2, window |-> <<"1", "s">>],
     [requests |-> 1, window |-> <<"2", "s">>]}
Stores == {"user", "ip"}
\* The subjects checked in the IP store.
IpSubjects == {<<"a">>}

NoGates ==
    [auth |-> "none", adminOnly |-> FALSE, roles |-> <<>>, permissions |-> <<>>,
     rateLimit |-> Unset, ipRateLimit |-> Unset, corsOrigins |-> Unset,
     httpsOnly |-> FALSE]

RECURSIVE TotalCalls(_, _)
TotalCalls(log, keys) ==
    IF keys = {} THEN 0
    ELSE LET k == CHOOSE x \in keys : TRUE
         IN  Len(log[k]) + TotalCalls(log, keys \ {k})

Record(log, k, entry) ==
    MapSet(log, k, IF k \in DOMAIN log THEN Append(log[k], entry) ELSE <<entry>>)

InitLimiter ==
    /\ config = NoGates
    /\ now = 0
    /\ userRateLimits = EmptyStore
    /\ ipRateLimits = EmptyStore
    /\ call = [r \in Slots |-> Idle]
    /\ tokenRefreshAttempts = EmptyStore
    /\ mw = MiddlewareIdle(FALSE, NoSession)
    /\ userActivity = <<>>
    /\ tracks = [p \in Trackers |-> NotTracking]
    /\ checks = <<>>
    /\ served = <<>>
    /\ refreshes = <<>>

CheckUser(key, policy) ==
    /\ TotalCalls(checks, DOMAIN checks) < MaxCalls
    /\ LET res == checkUserLimit(key, policy, userRateLimits, now)
       IN  /\ userRateLimits' = res.store
           /\ checks' = Record(checks, <<"user", key, policy>>,
                               [at |-> now, blocked |-> res.blocked])
    /\ UNCHANGED <<config, now, ipRateLimits, call, tokenRefreshAttempts, mw, userActivity, tracks, served, refreshes>>

CheckIp(key, policy) ==
    /\ TotalCalls(checks, DOMAIN checks) < MaxCalls
    /\ LET res == checkIpLimit(key, policy, ipRateLimits, now)
       IN  /\ ipRateLimits' = res.store
           /\ checks' = Record(checks, <<"ip", key, policy>>,
                               [at |-> now, blocked |-> res.blocked])
    /\ UNCHANGED <<config, now, userRateLimits, call, tokenRefreshAttempts, mw, userActivity, tracks, served, refreshes>>

NextLimiter ==
    \/ \E key \in Subjects, policy \in Policies : CheckUser(key, policy)
    \/ \E key \in IpSubjects, policy \in Policies : CheckIp(key, policy)
    \/ \E d \in FineSteps : Tick(d, MaxFineTicks) /\ UNCHANGED <<checks, served, refreshes>>

SpecLimiter == InitLimiter /\ [][NextLimiter]_vars

StoreOf(s) == IF s = "user" THEN userRateLimits ELSE ipRateLimits

\* The window that entry i of a history falls in, by the times of the
\* entries alone: the first entry opens a window, and so does each entry
\* that comes more than w after the entry that opened the window before it;
\* n is the place of entry i among the entries of its window.
RECURSIVE WindowAt(_, _, _)
WindowAt(entries, i, w) ==
    IF i = 1 THEN [start |-> entries[1].at, n |-> 1]
    ELSE LET prev == WindowAt(entries, i - 1, w)
         IN  IF entries[i].at > prev.start + w
             THEN [start |-> entries[i].at, n |-> 1]
             ELSE [start |-> prev.start, n |-> prev.n + 1]

\* C3: for every store, subject and policy {requests: N, window}, the
\* first N checks of a window are not blocked and the later checks of that
\* window are; the first check after the window has elapsed is not blocked
\* and leaves the counter {count: 1, resetTime: now + window}.
C3_Threshold ==
    \A k \in DOMAIN checks :
        LET entries == checks[k]
            w == parseWindow(k[3].window)
            last == WindowAt(entries, Len(entries), w)
            key == LimitKey(k[2], k[3])
        IN  /\ \A i \in 1..Len(entries) :
                  entries[i].blocked <=> WindowAt(entries, i, w).n > k[3].requests
            /\ last.n = 1 =>
                  /\ key \in DOMAIN StoreOf(k[1])
                  /\ StoreOf(k[1])[key] = [count |-> 1, resetTime |-> last.start + w]

\* A key of a policy with requests = 2 was checked three times in one
\* window, the third check blocked, and once more after the window.
C3_Witness ==
    \E k \in DOMAIN checks :
        /\ k[3].requests = 2
        /\ Len(checks[k]) = 4
        /\ ~checks[k][2].blocked
        /\ checks[k][3].blocked
        /\ checks[k][4].at > checks[k][1].at + parseWindow(k[3].window)
        /\ ~checks[k][4].blocked

Counter(s, key, policy) ==
    IF LimitKey(key, policy) \in DOMAIN StoreOf(s)
    THEN Some(StoreOf(s)[LimitKey(key, policy)])
    ELSE Unset

\* C4: a check of (subject A, policy P) in one store leaves the counter of
\* every other (subject, policy) pair of that store, and every counter of
\* the other store, as it was; each store holds one counter for each pair
\* that was checked in it.
C4_KeyIsolation ==
    [][/\ \A k \in DOMAIN checks' :
            (k \notin DOMAIN checks \/ checks'[k] # checks[k]) =>
                \A s \in Stores, key \in Subjects, policy \in Policies :
                    <<s, key, policy>> # k =>
                        Counter(s, key, policy)' = Counter(s, key, policy)
       /\ \A s \in Stores :
            Cardinality(DOMAIN StoreOf(s)') = Cardinality({k \in DOMAIN checks' : k[1] = s})
       /\ \A key1, key2 \in Subjects, p1, p2 \in Policies :
            <<key1, p1>> # <<key2, p2>> => LimitKey(key1, p1) # LimitKey(key2, p2)]_vars

\* One store holds the counters of subject A under both policies and of
\* subject B under one of them, and A's counter under P stands at 2.
C4_Witness ==
    \E s \in Stores, a, b \in Subjects, p, q \in Policies :
        /\ a # b /\ p # q
        /\ Counter(s, a, p) # Unset /\ Counter(s, a, q) # Unset /\ Counter(s, b, p) # Unset
        /\ Get(Counter(s, a, p)).count = 2

\* A step that checks the limit of k = (store, subject, policy).
Checked(k) == k \notin DOMAIN checks \/ checks'[k] # checks[k]

LastOf(entries) == entries[Len(entries)]

\* C17: every counter of either store belongs to a policy with
\* requests = N that was checked there and has 1 <= count <= N; a check that
\* returns blocked leaves the count and the resetTime of its counter, and
\* every other counter, as they were.
C17_CounterInvariant ==
    [][/\ \A s \in Stores : \A key \in DOMAIN StoreOf(s)' :
            \E k \in DOMAIN checks' :
                /\ k[1] = s /\ LimitKey(k[2], k[3]) = key
                /\ k[3].requests >= 1
                /\ 1 <= StoreOf(s)'[key].count
                /\ StoreOf(s)'[key].count <= k[3].requests
       /\ \A k \in DOMAIN checks' :
            (Checked(k) /\ LastOf(checks'[k]).blocked) =>
                userRateLimits' = userRateLimits /\ ipRateLimits' = ipRateLimits]_vars

\* A counter stands at its limit of 2 and the last check of its key was blocked.
C17_Witness ==
    \E k \in DOMAIN checks :
        /\ k[3].requests = 2
        /\ LastOf(checks[k]).blocked
        /\ Get(Counter(k[1], k[2], k[3])).count = 2

\* C18: a check replaces the counter of its key by {count: 1, resetTime:
\* now + window} when now > resetTime, and only then: at now <= resetTime
\* the resetTime stays and the count does not go down; a check at exactly
\* now = resetTime of a counter with count >= requests returns blocked and
\* leaves the counter as it was.
C18_StrictReset ==
    [][\A k \in DOMAIN checks' :
          Checked(k) =>
              LET key == LimitKey(k[2], k[3])
                  before == StoreOf(k[1])
                  after == StoreOf(k[1])'
                  blocked == LastOf(checks'[k]).blocked
              IN  key \in DOMAIN before =>
                    /\ now > before[key].resetTime =>
                          /\ ~blocked
                          /\ after[key] = [count |-> 1,
                                           resetTime |-> now + parseWindow(k[3].window)]
                    /\ now <= before[key].resetTime =>
                          /\ after[key].resetTime = before[key].resetTime
                          /\ after[key].count >= before[key].count
                    /\ (now = before[key].resetTime
                            /\ before[key].count >= k[3].requests) =>
                          blocked /\ after[key] = before[key]]_vars

\* A check made at exactly the resetTime of an exhausted counter was blocked.
C18_Witness ==
    \E k \in DOMAIN checks :
        /\ LastOf(checks[k]).blocked
        /\ LastOf(checks[k]).at = Get(Counter(k[1], k[2], k[3])).resetTime
        /\ Get(Counter(k[1], k[2], k[3])).count = k[3].requests

\* C19: for every key, the first check made later than the resetTime that
\* was fixed when the window was opened is not blocked, whatever blocked
\* checks the window saw; the resetTime of the counter is always the time
\* its window was opened plus the window, so no blocked check moves it.
C19_BlockedRecovers ==
    \A k \in DOMAIN checks :
        LET e == checks[k]
            w == parseWindow(k[3].window)
        IN  /\ \A i \in 2..Len(e) :
                  e[i].at > WindowAt(e, i - 1, w).start + w => ~e[i].blocked
            /\ Get(Counter(k[1], k[2], k[3])).resetTime
                  = WindowAt(e, Len(e), w).start + w

\* A key was blocked some time after its window was opened, and was let
\* through again right after the resetTime of that window, less than one
\* window after the blocked check.
C19_Witness ==
    \E k \in DOMAIN checks :
        LET e == checks[k]
            w == parseWindow(k[3].window)
        IN  \E i, j \in 1..Len(e) :
                /\ i < j
                /\ e[i].blocked
                /\ e[i].at > WindowAt(e, i, w).start
                /\ e[j].at > WindowAt(e, i, w).start + w
                /\ e[j].at <= e[i].at + w
                /\ ~e[j].blocked

(***************************************************************************)
(* A flood against an endpoint that requires authentication and limits     *)
(* requests per IP: every call of the guarded handler is recorded in       *)
(* served with its time, who made it and how the synchronous part ended.   *)
(***************************************************************************)
FloodConfigs ==
    {[NoGates EXCEPT !.auth = "required", !.ipRateLimit = Some(policy)] :
        policy \in {[requests |-> 1, window |-> <<"1", "s">>],
                    [requests |-> 2, window |-> <<"1", "s">>]}}

FloodRequests == {q \in ValidRequests : q.protocol = "https:" /\ q.origin = Null}

InitFlood ==
    /\ config \in FloodConfigs
    /\ now = 0
    /\ userRateLimits = EmptyStore
    /\ ipRateLimits = EmptyStore
    /\ call = [r \in Slots |-> Idle]
    /\ tokenRefreshAttempts = EmptyStore
    /\ mw = MiddlewareIdle(FALSE, NoSession)
    /\ userActivity = <<>>
    /\ tracks = [p \in Trackers |-> NotTracking]
    /\ checks = <<>>
    /\ served = <<>>
    /\ refreshes = <<>>

\* What the caller sees of the call in slot r right after the gates: the
\* status of the response, 0 while the handler is awaited, -1 for an exception.
Outcome(c) ==
    CASE c.pc = "returned" -> Get(Get(c.result).value).status
      [] c.pc = "awaiting" -> 0
      [] c.pc = "threw" -> -1

Who(req) ==
    IF req.authThrows THEN "lookup threw"
    ELSE IF req.auth.userId = <<>> THEN "anonymous" ELSE "principal"

ServedCall(r, req) ==
    /\ Len(served) < MaxCalls
    /\ SecureCall(r, req)
    /\ served' = Append(served, [at |-> now, ip |-> req.clientIp, who |-> Who(req),
                                 status |-> Outcome(call'[r])])
    /\ UNCHANGED <<checks, refreshes>>

NextFlood ==
    \/ \E r \in Slots, req \in FloodRequests : ServedCall(r, req)
    \/ \E r \in Slots, h \in HandlerOutcomes :
          HandlerSettles(r, h) /\ UNCHANGED <<checks, served, refreshes>>
    \/ \E r \in Slots : Deliver(r) /\ UNCHANGED <<checks, served, refreshes>>
    \/ \E d \in FineSteps : Tick(d, MaxFineTicks) /\ UNCHANGED <<checks, served, refreshes>>

SpecFlood == InitFlood /\ [][NextFlood]_vars

\* The requests of one client IP, in the order served.
RECURSIVE FromIp(_, _)
FromIp(log, ip) ==
    IF log = <<>> THEN <<>>
    ELSE (IF Head(log).ip = ip THEN <<Head(log)>> ELSE <<>>) \o FromIp(Tail(log), ip)

\* C6: with {auth: required, ipRateLimit: {requests: N, window}}, of the
\* requests of one client IP in one window the first N get 401
\* AUTH_REQUIRED when they carry no principal, and every request after the
\* N-th gets 429 RATE_LIMIT_EXCEEDED: the requests that the authentication
\* check rejects count against the IP.
C6_FloodStatuses ==
    \A ip \in ClientIps :
        LET log == FromIp(served, ip)
            policy == Get(config.ipRateLimit)
        IN  \A i \in 1..Len(log) :
                LET n == WindowAt(log, i, parseWindow(policy.window)).n
                IN  /\ n > policy.requests => log[i].status = 429
                    /\ (n <= policy.requests /\ log[i].who = "anonymous") =>
                          log[i].status = 401

\* Three requests without a principal in one window under requests = 2:
\* 401, 401, 429.
C6_Witness ==
    /\ Get(config.ipRateLimit).requests = 2
    /\ Len(served) >= 3
    /\ \A i \in 1..3 : served[i].who = "anonymous"
    /\ served[3].at <= served[1].at + 1000
    /\ <<served[1].status, served[2].status, served[3].status>> = <<401, 401, 429>>

(***************************************************************************)
(* The guard together with its post-invocation block (the safety net, the  *)
(* CORS headers and the catch around them) applied, as a function of the   *)
(* handler's outcome, the request and the value of auth(), to every input. *)
(***************************************************************************)
InitPost ==
    /\ config \in Configs
    /\ now = 0
    /\ userRateLimits = EmptyStore
    /\ ipRateLimits = EmptyStore
    /\ call = [r \in Slots |-> Idle]
    /\ tokenRefreshAttempts = EmptyStore
    /\ mw = MiddlewareIdle(FALSE, NoSession)
    /\ userActivity = <<>>
    /\ tracks = [p \in Trackers |-> NotTracking]
    /\ checks = <<>>
    /\ served = <<>>
    /\ refreshes = <<>>

\* Lines 339-361 and the catch block, entered with handler outcome h for
\* request req whose identity lookup gave req.auth.
PostInvocation(r, req, h) ==
    /\ call[r].pc = "idle"
    /\ ~req.authThrows
    /\ LET res == AfterHandler(h, config, req, Some(req.auth))
       IN  call' = [call EXCEPT ![r] =
                [pc |-> Settled(res), req |-> Some(req), auth |-> Some(req.auth),
                 invoked |-> 1, handler |-> Some(h), result |-> Some(res)]]
    /\ UNCHANGED <<config, now, userRateLimits, ipRateLimits, tokenRefreshAttempts, mw, userActivity, tracks>>

NextPost ==
    \/ \E r \in Slots, req \in ValidRequests :
          SecureCall(r, req) /\ UNCHANGED <<checks, served, refreshes>>
    \/ \E r \in Slots, h \in HandlerOutcomes :
          HandlerSettles(r, h) /\ UNCHANGED <<checks, served, refreshes>>
    \/ \E r \in Slots, req \in ValidRequests, h \in HandlerOutcomes :
          PostInvocation(r, req, h) /\ UNCHANGED <<checks, served, refreshes>>
    \/ \E r \in Slots : Deliver(r) /\ UNCHANGED <<checks, served, refreshes>>

SpecPost == InitPost /\ [][NextPost]_vars

\* The Access-Control-Allow-Origin header of a response, when it has one.
Acao(resp) ==
    IF "Access-Control-Allow-Origin" \in DOMAIN resp.headers
    THEN Some(resp.headers["Access-Control-Allow-Origin"])
    ELSE Unset

\* The request carries an Origin that the list allows.
OriginAllowed(req) ==
    /\ req.origin # Null
    /\ req.origin \in SetOf(Get(config.corsOrigins)) \/ "*" \in SetOf(Get(config.corsOrigins))

\* C11: when the Origin of the request is allowed (listed verbatim, or the
\* list contains "*"), Access-Control-Allow-Origin of the response equals
\* that Origin; it is "*" only when the list contains "*" and the request
\* carries no Origin.
C11_CorsEcho ==
    \A r \in Slots :
        (IsSet(config.corsOrigins) /\ call[r].pc = "returned") =>
            LET req == Get(call[r].req)
                resp == ResponseOf(call[r])
            IN  /\ OriginAllowed(req) => Acao(resp) = Some(req.origin)
                /\ Acao(resp) = Some("*") =>
                      "*" \in SetOf(Get(config.corsOrigins)) /\ req.origin = Null

\* Origin https://a.test against ["https://a.test", "*"] was answered with
\* Access-Control-Allow-Origin: https://a.test.
C11_Witness ==
    \E r \in Slots :
        /\ config.corsOrigins = Some(<<OriginA, "*">>)
        /\ call[r].pc = "returned"
        /\ Get(call[r].req).origin = OriginA
        /\ Acao(ResponseOf(call[r])) = Some(OriginA)

FixedCorsHeaders(resp) ==
    /\ {"Access-Control-Allow-Methods", "Access-Control-Allow-Headers",
        "Access-Control-Max-Age"} \subseteq DOMAIN resp.headers
    /\ resp.headers["Access-Control-Allow-Methods"] = "GET, POST, PUT, DELETE, OPTIONS"
    /\ resp.headers["Access-Control-Allow-Headers"] = "Content-Type, Authorization"
    /\ resp.headers["Access-Control-Max-Age"] = "86400"

\* C12 as stated: with corsOrigins configured, every response of the
\* guarded handler carries all four CORS headers.
C12_AsStated ==
    \A r \in Slots :
        (IsSet(config.corsOrigins) /\ call[r].pc = "returned") =>
            /\ IsSet(Get(call[r].result).value)
            /\ FixedCorsHeaders(ResponseOf(call[r]))
            /\ IsSet(Acao(ResponseOf(call[r])))

\* C12 (amended): with corsOrigins configured, every response of the
\* guarded handler, on the success path, the forced-401 path and every
\* policy-error path, carries Access-Control-Allow-Methods,
\* Access-Control-Allow-Headers and Access-Control-Max-Age with their fixed
\* values; it carries Access-Control-Allow-Origin exactly when the Origin of
\* the request is allowed or the list contains "*".
C12_CorsHeaders ==
    \A r \in Slots :
        (IsSet(config.corsOrigins) /\ call[r].pc = "returned") =>
            /\ IsSet(Get(call[r].result).value)
            /\ FixedCorsHeaders(ResponseOf(call[r]))
            /\ IsSet(Acao(ResponseOf(call[r])))
                  <=> \/ OriginAllowed(Get(call[r].req))
                      \/ "*" \in SetOf(Get(config.corsOrigins))

\* A CORS_VIOLATION response carries the three fixed headers and no
\* Access-Control-Allow-Origin.
C12_Witness ==
    \E r \in Slots :
        /\ IsSet(config.corsOrigins)
        /\ IsErrorResponse(call[r])
        /\ ResponseOf(call[r]).body.error = "CORS_VIOLATION"
        /\ FixedCorsHeaders(ResponseOf(call[r]))
        /\ Acao(ResponseOf(call[r])) = Unset

\* The post-invocation block was entered for a handler that returned HTML
\* or nothing, under auth = required, with no principal.
SafetyNetCase(c) ==
    /\ c.pc \in {"returned", "threw"}
    /\ IsSet(c.handler)
    /\ Get(c.handler).type = "return"
    /\ ~IsSet(Get(c.handler).value) \/ IsHtml(Get(Get(c.handler).value))
    /\ config.auth = "required"
    /\ ~IsSet(UserOf(c.auth))

\* C13: under auth = required with no resolved principal, when the wrapped
\* handler returns an HTML response or nothing, the guarded handler returns
\* a JSON 401 response with body {error: "AUTH_REQUIRED", message}; what the
\* handler returned is not what the caller receives.
C13_ForcedUnauthorized ==
    \A r \in Slots :
        SafetyNetCase(call[r]) =>
            /\ call[r].pc = "returned"
            /\ IsSet(Get(call[r].result).value)
            /\ ResponseOf(call[r]).status = 401
            /\ IsJsonError(ResponseOf(call[r]))
            /\ ResponseOf(call[r]).body.error = "AUTH_REQUIRED"
            /\ Get(call[r].result).value # Get(call[r].handler).value

\* The safety net answered 401 for a handler that returned nothing, under a
\* configuration that lists origins.
C13_Witness ==
    \E r \in Slots :
        /\ SafetyNetCase(call[r])
        /\ IsSet(config.corsOrigins)
        /\ ~IsSet(Get(call[r].handler).value)
        /\ ResponseOf(call[r]).status = 401

\* A request passes the HTTPS, CORS and IP gates.
PassesEarlyGates(req) == \A j \in 1..(LookupIndex - 1) : ~Fails(FixedOrder[j], req)

\* The identity lookup returns and resolves no principal.
NoPrincipal(req) == ~req.authThrows /\ req.auth.userId = <<>>

\* C14: under auth = required, a request for which the identity lookup
\* resolves no principal and that passes the HTTPS, CORS and IP gates is
\* answered 401 AUTH_REQUIRED without the handler being invoked, whatever
\* adminOnly, roles, permissions and rateLimit are; the wrapped handler is
\* never invoked, and so the post-invocation block never entered, with no
\* principal under auth = required.
C14_AuthRequiredAlwaysRejects ==
    [][\A r \in Slots :
          /\ (/\ Enters(r)
              /\ config.auth = "required"
              /\ NoPrincipal(Get(call'[r].req))
              /\ PassesEarlyGates(Get(call'[r].req))) =>
                /\ IsErrorResponse(call'[r])
                /\ call'[r].invoked = 0
                /\ ResponseOf(call'[r]).status = 401
                /\ ResponseOf(call'[r]).body.error = "AUTH_REQUIRED"
          /\ (config.auth = "required" /\ call'[r].invoked = 1) =>
                IsSet(UserOf(call'[r].auth))
          /\ ~SafetyNetCase(call'[r])]_vars

\* A request without a principal was answered 401 AUTH_REQUIRED under a
\* configuration with adminOnly, roles, permissions and a user rate limit.
C14_Witness ==
    \E r \in Slots :
        /\ config.auth = "required" /\ config.adminOnly
        /\ config.roles # <<>> /\ config.permissions # <<>>
        /\ IsSet(config.rateLimit)
        /\ IsErrorResponse(call[r])
        /\ NoPrincipal(Get(call[r].req))
        /\ ResponseOf(call[r]).status = 401
        /\ ResponseOf(call[r]).body.error = "AUTH_REQUIRED"

(***************************************************************************)
(* The refresh throttle on its own: shouldRefreshToken called with any     *)
(* auth at any time, every call recorded in refreshes.                     *)
(***************************************************************************)
\* What a caller passes as auth: an auth object without sessionId, and the
\* sessions of two principals.
TokenAuths ==
    {Some([sessionId |-> "", userId |-> "user_1"]),
     Some([sessionId |-> "sess_1", userId |-> "user_1"]),
     Some([sessionId |-> "sess_2", userId |-> "user_2"])}

InitToken ==
    /\ config = NoGates
    /\ now = 0
    /\ userRateLimits = EmptyStore
    /\ ipRateLimits = EmptyStore
    /\ call = [r \in Slots |-> Idle]
    /\ tokenRefreshAttempts = EmptyStore
    /\ mw = MiddlewareIdle(FALSE, NoSession)
    /\ userActivity = <<>>
    /\ tracks = [p \in Trackers |-> NotTracking]
    /\ checks = <<>>
    /\ served = <<>>
    /\ refreshes = <<>>

RefreshCheck(auth) ==
    /\ TotalCalls(refreshes, DOMAIN refreshes) < MaxRefreshes
    /\ LET res == shouldRefreshToken(auth, tokenRefreshAttempts, now)
       IN  /\ tokenRefreshAttempts' = res.attempts
           /\ refreshes' = Record(refreshes, auth, [at |-> now, allowed |-> res.result])
    /\ UNCHANGED <<config, now, userRateLimits, ipRateLimits, call, mw, userActivity, tracks,
                   checks, served>>

NextToken ==
    \/ \E auth \in TokenAuths : RefreshCheck(auth)
    \/ \E d \in TokenSteps : Tick(d, MaxTokenTicks) /\ UNCHANGED <<checks, served, refreshes>>

SpecToken == InitToken /\ [][NextToken]_vars

Hour == 60 * 60 * 1000

\* The auths with a session that shouldRefreshToken was called with.
WithSession == {a \in DOMAIN refreshes : IsSet(a) /\ Get(a).sessionId # ""}

\* Call i of a history is made within the hour that the first call opens.
InFirstHour(e, i) == e[i].at < e[1].at + Hour

\* C15: of the calls of one principal with a session, the first
\* five made within one hour return true, the sixth within that hour
\* returns false, and the first call made after that hour has ended returns
\* true and leaves the counter at 1.
C15_RefreshThreshold ==
    \A a \in WithSession :
        LET e == refreshes[a]
        IN  \A i \in 1..Len(e) :
                /\ (i <= 5 /\ InFirstHour(e, i)) => e[i].allowed
                /\ (i = 6 /\ InFirstHour(e, i)) => ~e[i].allowed
                /\ (i >= 6 /\ InFirstHour(e, i - 1) /\ e[i].at > e[1].at + Hour) =>
                      /\ e[i].allowed
                      /\ i = Len(e) =>
                            tokenRefreshAttempts[Get(a).userId]
                                = [count |-> 1, lastAttempt |-> e[i].at]

\* The first attempt of the window that call i falls in, when a window
\* lasts one hour from its first attempt.
RECURSIVE WindowStart(_, _)
WindowStart(e, i) ==
    IF i = 1 THEN e[1].at
    ELSE LET prev == WindowStart(e, i - 1)
         IN  IF e[i].at - prev >= Hour THEN e[i].at ELSE prev

\* C16: a call made at least one hour after the first attempt of
\* the current window returns true and resets the counter to 1, also when
\* later attempts of that window are less than one hour old.
C16_WindowFromFirstAttempt ==
    \A a \in WithSession :
        LET e == refreshes[a]
        IN  \A i \in 2..Len(e) :
                e[i].at - WindowStart(e, i - 1) >= Hour =>
                    /\ e[i].allowed
                    /\ i = Len(e) => tokenRefreshAttempts[Get(a).userId].count = 1

\* The calls i..j of a history that returned true.
AllowedIn(e, i, j) == {k \in i..j : e[k].allowed}

\* C22: for one principal, the calls of shouldRefreshToken made within any
\* interval shorter than one hour that return true are at most 5.  (The
\* calls of a principal that can return true are those of its session: a
\* call without sessionId never does.)
C22_AtMostFivePerHour ==
    \A a \in DOMAIN refreshes :
        LET e == refreshes[a]
        IN  /\ Get(a).sessionId = "" => AllowedIn(e, 1, Len(e)) = {}
            /\ \A i \in 1..Len(e) :
                  \A j \in (i + 5)..Len(e) :
                      e[j].at - e[i].at < Hour => Cardinality(AllowedIn(e, i, j)) <= 5

\* Five calls of one principal within forty minutes returned true, a sixth
\* within the hour was refused, and a call one hour after the fifth
\* returned true.
C22_Witness ==
    \E a \in WithSession :
        LET e == refreshes[a]
        IN  /\ Len(e) = 7
            /\ \A i \in 1..5 : e[i].allowed
            /\ e[5].at > e[1].at
            /\ e[6].at - e[1].at < Hour /\ ~e[6].allowed
            /\ e[7].at - e[5].at >= Hour /\ e[7].allowed

\* The time of the last call before call i that returned true.
LastAllowedTime(e, i) ==
    LET allowed == {j \in 1..(i - 1) : e[j].allowed}
    IN  e[CHOOSE j \in allowed : \A k \in allowed : k <= j].at

\* C23: a call of shouldRefreshToken that returns false leaves every
\* refresh record as it was; a call made at least one hour after the last
\* call of the principal that returned true returns true, whatever calls
\* were refused in between; a call without sessionId returns false.
C23_RefusedLeavesRecord ==
    [][\A a \in DOMAIN refreshes' :
          (a \notin DOMAIN refreshes \/ refreshes'[a] # refreshes[a]) =>
              LET e == refreshes'[a]
                  i == Len(e)
              IN  /\ ~e[i].allowed => tokenRefreshAttempts' = tokenRefreshAttempts
                  /\ Get(a).sessionId = "" => ~e[i].allowed
                  /\ (/\ Get(a).sessionId # ""
                      /\ \E j \in 1..(i - 1) : e[j].allowed
                      /\ e[i].at - LastAllowedTime(e, i) >= Hour) => e[i].allowed]_vars

\* A principal made five allowed calls, was refused less than an hour after
\* the last of them, and was allowed again one hour after the last allowed
\* call, less than an hour after the refused one.
C23_Witness ==
    \E a \in WithSession :
        LET e == refreshes[a]
        IN  /\ Len(e) = 7
            /\ \A i \in 1..5 : e[i].allowed
            /\ ~e[6].allowed /\ e[6].at > e[5].at
            /\ e[7].at - e[5].at >= Hour /\ e[7].at - e[6].at < Hour
            /\ e[7].allowed
            /\ tokenRefreshAttempts[Get(a).userId] = [count |-> 1, lastAttempt |-> e[7].at]

(***************************************************************************)
(* Concurrent requests on one event loop: two calls of the guarded handler *)
(* can be in progress at once.  A call runs from its entry to the await of *)
(* the wrapped handler in one step (lines 252-333 hold no await), so       *)
(* another call can enter only while the first is suspended at line 333 or *)
(* has settled.  Every rate-limit check a call makes is recorded in checks.*)
(***************************************************************************)
ConcurrentSlots == {"c1", "c2"}

ConcurrentPolicy == [requests |-> 2, window |-> <<"1", "s">>]

ConcurrentConfigs ==
    {[NoGates EXCEPT !.ipRateLimit = ip, !.rateLimit = usr] :
        ip \in {Unset, Some(IpPolicy)}, usr \in {Unset, Some(ConcurrentPolicy)}}
    \ {NoGates}

ConcurrentRequests ==
    {q \in ValidRequests :
        /\ q.protocol = "https:" /\ q.origin = Null
        /\ q.auth \in {SignedOut, Alice}
        /\ ~q.authThrows}

InitConcurrent ==
    /\ config \in ConcurrentConfigs
    /\ now = 0
    /\ userRateLimits = EmptyStore
    /\ ipRateLimits = EmptyStore
    /\ call = [r \in ConcurrentSlots |-> Idle]
    /\ tokenRefreshAttempts = EmptyStore
    /\ mw = MiddlewareIdle(FALSE, NoSession)
    /\ userActivity = <<>>
    /\ tracks = [p \in Trackers |-> NotTracking]
    /\ checks = <<>>
    /\ served = <<>>
    /\ refreshes = <<>>

\* The checks that the gates made in a call that took the stores from
\* (ip0, usr0) to state st: a check that is not blocked writes its counter
\* (lines 125, 136); a blocked one throws RateLimitError, before auth() is
\* read for the IP limit (line 278) and after it for the user limit (line 322).
ChecksMade(req, ip0, usr0, st) ==
    LET limited == IsSet(st.thrown) /\ Get(st.thrown) = RateLimitError
        ipLog ==
            IF st.ip # ip0 \/ (limited /\ ~IsSet(st.auth))
            THEN Record(checks, <<"ip", req.clientIp, Get(config.ipRateLimit)>>,
                        [at |-> now, blocked |-> st.ip = ip0])
            ELSE checks
    IN  IF st.usr # usr0 \/ (limited /\ IsSet(st.auth))
        THEN Record(ipLog, <<"user", req.auth.userId, Get(config.rateLimit)>>,
                    [at |-> now, blocked |-> st.usr = usr0])
        ELSE ipLog

ConcurrentCall(r, req) ==
    /\ TotalCalls(checks, DOMAIN checks) < MaxCalls
    /\ SecureCall(r, req)
    /\ checks' = ChecksMade(req, ipRateLimits, userRateLimits,
                            RunGates(GateOrder, config, req, now,
                                     [ip |-> ipRateLimits, usr |-> userRateLimits,
                                      auth |-> Unset, thrown |-> Unset]))
    /\ UNCHANGED <<served, refreshes>>

NextConcurrent ==
    \/ \E r \in ConcurrentSlots, req \in ConcurrentRequests : ConcurrentCall(r, req)
    \/ \E r \in ConcurrentSlots, h \in HandlerOutcomes :
          HandlerSettles(r, h) /\ UNCHANGED <<checks, served, refreshes>>
    \/ \E r \in ConcurrentSlots : Deliver(r) /\ UNCHANGED <<checks, served, refreshes>>
    \/ \E d \in FineSteps : Tick(d, MaxFineTicks) /\ UNCHANGED <<checks, served, refreshes>>

SpecConcurrent == InitConcurrent /\ [][NextConcurrent]_vars

\* The checks of a history that were not blocked in the window of entry i.
PassedInWindow(entries, i, w) ==
    Cardinality({j \in 1..Len(entries) :
                    /\ WindowAt(entries, j, w).start = WindowAt(entries, i, w).start
                    /\ ~entries[j].blocked})

\* C21: with requests interleaved on one event loop, suspended only at the
\* await of the wrapped handler, at most N = requests checks of one key
\* return not-blocked in one window, whichever calls are in progress.
C21_AtMostNPerWindow ==
    \A k \in DOMAIN checks :
        \A i \in 1..Len(checks[k]) :
            PassedInWindow(checks[k], i, parseWindow(k[3].window)) <= k[3].requests

\* Two calls passed the limit of one key in one window and are both
\* suspended at the await of their handlers when a third call, entering
\* within that window, was blocked.
C21_Witness ==
    \E k \in DOMAIN checks :
        /\ Len(checks[k]) >= 3
        /\ ~checks[k][1].blocked /\ ~checks[k][2].blocked /\ checks[k][3].blocked
        /\ checks[k][3].at <= checks[k][1].at + parseWindow(k[3].window)
        /\ Cardinality({r \in ConcurrentSlots : call[r].pc = "awaiting"}) = 2

(***************************************************************************)
(* The guard under every shape of corsOrigins: no list, the empty list,    *)
(* lists with and without the wildcard; the Origin header absent, empty,   *)
(* listed, listed in another case, and not listed.                         *)
(***************************************************************************)
OriginB == "https://b.test"
OriginACase == "HTTPS://A.TEST"

CorsLists ==
    {Unset, Some(<<>>), Some(<<OriginA>>), Some(<<OriginB, OriginA>>),
     Some(<<"*">>), Some(<<OriginA, "*">>)}

CorsConfigs ==
    {[NoGates EXCEPT !.corsOrigins = list, !.httpsOnly = https, !.auth = auth] :
        list \in CorsLists, https \in BOOLEAN, auth \in {"none", "required"}}

CorsRequests ==
    [protocol : {"http:", "https:"},
     origin : {Null, "", OriginA, OriginACase, OriginEvil},
     clientIp : ClientIps,
     authThrows : {FALSE},
     auth : {SignedOut, Alice}]

InitCors ==
    /\ config \in CorsConfigs
    /\ now = 0
    /\ userRateLimits = EmptyStore
    /\ ipRateLimits = EmptyStore
    /\ call = [r \in Slots |-> Idle]
    /\ tokenRefreshAttempts = EmptyStore
    /\ mw = MiddlewareIdle(FALSE, NoSession)
    /\ userActivity = <<>>
    /\ tracks = [p \in Trackers |-> NotTracking]
    /\ checks = <<>>
    /\ served = <<>>
    /\ refreshes = <<>>

NextCors ==
    \/ \E r \in Slots, req \in CorsRequests :
          SecureCall(r, req) /\ UNCHANGED <<checks, served, refreshes>>
    \/ \E r \in Slots, h \in HandlerOutcomes :
          HandlerSettles(r, h) /\ UNCHANGED <<checks, served, refreshes>>
    \/ \E r \in Slots : Deliver(r) /\ UNCHANGED <<checks, served, refreshes>>

SpecCors == InitCors /\ [][NextCors]_vars

\* The request carries an Origin.  headers.get("origin") gives the empty
\* string for an Origin header without a value, which the guard takes for a
\* missing header: such a request counts as carrying no Origin.
CarriesOrigin(req) == req.origin # Null /\ req.origin # ""

\* The call ended in the response of the CORS gate.
CorsViolation(c) ==
    /\ IsErrorResponse(c)
    /\ ResponseOf(c).status = 403
    /\ ResponseOf(c).body.error = "CORS_VIOLATION"

\* The call got as far as the CORS gate: the HTTPS gate did not reject it.
ReachesCorsGate(req) == ~(config.httpsOnly /\ req.protocol # "https:")

OriginNotAllowed(req) ==
    /\ IsSet(config.corsOrigins)
    /\ req.origin # Null
    /\ req.origin \notin SetOf(Get(config.corsOrigins))
    /\ "*" \notin SetOf(Get(config.corsOrigins))

\* C25: a response to a request whose Origin is not allowed carries no
\* Access-Control-Allow-Origin; when a response of the guard carries the
\* header, its value is the allowed Origin of the request itself, or "*"
\* under a list that holds "*", never another origin of the list.
C25_NoForeignOrigin ==
    \A r \in Slots :
        (call[r].pc = "returned" /\ IsSet(Get(call[r].result).value)) =>
            LET req == Get(call[r].req)
                acao == Acao(ResponseOf(call[r]))
            IN  /\ OriginNotAllowed(req) => acao = Unset
                /\ acao # Unset =>
                      /\ IsSet(config.corsOrigins)
                      /\ \/ /\ acao = Some(req.origin)
                            /\ CarriesOrigin(req)
                            /\ ~OriginNotAllowed(req)
                         \/ /\ acao = Some("*")
                            /\ "*" \in SetOf(Get(config.corsOrigins))

\* An http request with an Origin that is not listed, against a list of two
\* other origins with httpsOnly set, was answered HTTPS_REQUIRED without
\* Access-Control-Allow-Origin.
C25_Witness ==
    \E r \in Slots :
        /\ config.corsOrigins = Some(<<OriginB, OriginA>>)
        /\ IsErrorResponse(call[r])
        /\ Get(call[r].req).origin = OriginEvil
        /\ ResponseOf(call[r]).body.error = "HTTPS_REQUIRED"
        /\ Acao(ResponseOf(call[r])) = Unset
        /\ FixedCorsHeaders(ResponseOf(call[r]))

(***************************************************************************)
(* The auth middleware and a browser that follows its redirects.  The      *)
(* build mode and what auth() does for the session of the browser are      *)
(* fixed for a behaviour.                                                  *)
(***************************************************************************)
AuthErrors ==
    {[message |-> <<"JWT", "issued", "at", "date", "claim", "(iat)", "is", "in",
                    "the", "future">>, code |-> ""],
     [message |-> <<"Token", "rejected">>, code |-> "CLERK_JWT_EXPIRED"],
     [message |-> <<"Refresh", "aborted:", "infinite", "redirect", "loop">>, code |-> ""],
     [message |-> <<"Unable", "to", "reach", "Clerk">>, code |-> "NETWORK_ERROR"]}

AuthOutcomes ==
    [type : {"return"}, isAuthenticated : BOOLEAN]
    \cup [type : {"throw"}, error : AuthErrors]

Urls ==
    [pathname : {"/", "/clock-error", "/404", "/dashboard", "/api/subreddits"},
     params : {{}, {"bypass-auth"}}]

InitMiddleware ==
    /\ config = NoGates
    /\ now = 0
    /\ userRateLimits = EmptyStore
    /\ ipRateLimits = EmptyStore
    /\ call = [r \in Slots |-> Idle]
    /\ tokenRefreshAttempts = EmptyStore
    /\ mw \in {MiddlewareIdle(prod, session) : prod \in BOOLEAN, session \in AuthOutcomes}
    /\ userActivity = <<>>
    /\ tracks = [p \in Trackers |-> NotTracking]
    /\ checks = <<>>
    /\ served = <<>>
    /\ refreshes = <<>>

\* The browser asks for url; the middleware runs.
Navigate(url) ==
    /\ mw.request = Unset
    /\ mw' = [mw EXCEPT !.request = Some(url),
                        !.result = Some(onRequest(mw.session, url, mw.prod)),
                        !.cause = Unset,
                        !.hops = 0]
    /\ UNCHANGED <<config, now, userRateLimits, ipRateLimits, call, tokenRefreshAttempts,
                   userActivity, tracks, checks, served, refreshes>>

\* The browser follows the redirect it was given; the middleware runs on
\* the new request.
FollowRedirect ==
    /\ mw.request # Unset
    /\ Get(mw.result).kind = "redirect"
    /\ mw.hops < MaxHops
    /\ LET url == Get(mw.result).to
       IN  mw' = [mw EXCEPT !.request = Some(url),
                            !.result = Some(onRequest(mw.session, url, mw.prod)),
                            !.cause = mw.result,
                            !.hops = @ + 1]
    /\ UNCHANGED <<config, now, userRateLimits, ipRateLimits, call, tokenRefreshAttempts,
                   userActivity, tracks, checks, served, refreshes>>

\* The page is served, or the browser has left for the sign-in page.
PageServed ==
    /\ mw.request # Unset
    /\ Get(mw.result).kind \in {"next", "signIn"}
    /\ mw' = MiddlewareIdle(mw.prod, mw.session)
    /\ UNCHANGED <<config, now, userRateLimits, ipRateLimits, call, tokenRefreshAttempts,
                   userActivity, tracks, checks, served, refreshes>>

NextMiddleware ==
    \/ \E url \in Urls : Navigate(url)
    \/ FollowRedirect
    \/ PageServed

SpecMiddleware == InitMiddleware /\ [][NextMiddleware]_vars

\* The middleware let the request in hand through without a redirect.
PassedThrough == mw.request # Unset /\ Get(mw.result).kind = "next"

Authenticated == mw.session.type = "return" /\ mw.session.isAuthenticated

\* C27: a request to a route that is not public passes the middleware
\* without a redirect only if auth() reported isAuthenticated, or the build
\* is not a production build, auth() threw an error that is neither a
\* clock-skew nor an infinite-loop error, and the URL has a bypass-auth
\* parameter; in a production build no request passes by that parameter.
C27_ProtectedRoutes ==
    (PassedThrough /\ Get(mw.request).pathname \notin SetOf(PublicRoutes)) =>
        /\ \/ Authenticated
           \/ /\ ~mw.prod
              /\ mw.session.type = "throw"
              /\ ~isClockSkewError(mw.session.error)
              /\ ~isInfiniteLoopError(mw.session.error)
              /\ "bypass-auth" \in Get(mw.request).params
        /\ mw.prod => Authenticated

\* In a development build a request for /dashboard?bypass-auth passed
\* although auth() threw a network error.
C27_Witness ==
    /\ PassedThrough
    /\ ~mw.prod
    /\ mw.session.type = "throw"
    /\ mw.session.error.code = "NETWORK_ERROR"
    /\ Get(mw.request) = [pathname |-> "/dashboard", params |-> {"bypass-auth"}]

\* C28: a signed-in user who asks for the landing page "/" is redirected
\* to "/dashboard".
C28_LandingRedirect ==
    (mw.request # Unset /\ Authenticated /\ Get(mw.request).pathname = "/") =>
        /\ Get(mw.result).kind = "redirect"
        /\ Get(mw.result).to.pathname = "/dashboard"

\* C29: a request for a public route always passes without a redirect,
\* also when auth() throws; so the request that follows a redirect issued
\* on an auth error is served, and redirects do not follow one another
\* without end.
C29_PublicRoutesServed ==
    /\ (mw.request # Unset /\ Get(mw.request).pathname \in SetOf(PublicRoutes)) =>
          Get(mw.result).kind = "next"
    /\ (mw.request # Unset /\ mw.cause # Unset /\ Get(mw.cause).caught) =>
          Get(mw.result).kind = "next"
    /\ mw.hops < MaxHops

(***************************************************************************)
(* UserActivityService.trackActivity called by two callers at once: a call *)
(* runs up to its next await in one step, and each store operation takes   *)
(* effect in the step that resumes the call.                               *)
(***************************************************************************)
TrackData ==
    {[userId |-> "user_1", activityType |-> "viewed_opportunity",
      resourceId |-> Some(7), resourceType |-> Some("opportunity"),
      metadata |-> Some("{source}")],
     [userId |-> "user_1", activityType |-> "viewed_opportunity",
      resourceId |-> Some(0), resourceType |-> Some("opportunity"),
      metadata |-> Unset],
     [userId |-> "user_1", activityType |-> "searched",
      resourceId |-> Unset, resourceType |-> Some("search_query"),
      metadata |-> Unset]}

InitActivity ==
    /\ config = NoGates
    /\ now = 0
    /\ userRateLimits = EmptyStore
    /\ ipRateLimits = EmptyStore
    /\ call = [r \in Slots |-> Idle]
    /\ tokenRefreshAttempts = EmptyStore
    /\ mw = MiddlewareIdle(FALSE, NoSession)
    /\ userActivity = <<>>
    /\ tracks = [p \in Trackers |-> NotTracking]
    /\ checks = <<>>
    /\ served = <<>>
    /\ refreshes = <<>>

InProgress == {p \in Trackers : tracks[p].pc # "idle"}

\* trackActivity(data) up to its first await: findFirst for the view of an
\* opportunity with a truthy resourceId, create for every other activity.
TrackActivity(p, data) ==
    /\ tracks[p].pc = "idle"
    /\ Len(userActivity) + Cardinality(InProgress) < MaxRows
    /\ tracks' = [tracks EXCEPT ![p] =
            [pc |-> IF data.activityType = "viewed_opportunity" /\ TruthyId(data.resourceId)
                    THEN "findFirst" ELSE "create",
             data |-> Some(data), existing |-> Unset, stamp |-> 0]]
    /\ UNCHANGED <<config, now, userRateLimits, ipRateLimits, call, tokenRefreshAttempts,
                   mw, userActivity, checks, served, refreshes>>

\* findFirst resolves: the call goes on to update the row found, with the
\* time of this moment, or to create a row.
FindFirstResolves(p) ==
    /\ tracks[p].pc = "findFirst"
    /\ LET existingActivity == findFirst(userActivity, Get(tracks[p].data))
       IN  tracks' = [tracks EXCEPT ![p].existing = existingActivity,
                                    ![p].stamp = now,
                                    ![p].pc = IF IsSet(existingActivity)
                                              THEN "update" ELSE "create"]
    /\ UNCHANGED <<config, now, userRateLimits, ipRateLimits, call, tokenRefreshAttempts,
                   mw, userActivity, checks, served, refreshes>>

UpdateResolves(p) ==
    /\ tracks[p].pc = "update"
    /\ userActivity' = update(userActivity, Get(tracks[p].existing).id, tracks[p].stamp,
                              MetadataOf(Get(tracks[p].data)))
    /\ tracks' = [tracks EXCEPT ![p] = NotTracking]
    /\ UNCHANGED <<config, now, userRateLimits, ipRateLimits, call, tokenRefreshAttempts,
                   mw, checks, served, refreshes>>

CreateResolves(p) ==
    /\ tracks[p].pc = "create"
    /\ userActivity' = create(userActivity, Get(tracks[p].data), now)
    /\ tracks' = [tracks EXCEPT ![p] = NotTracking]
    /\ UNCHANGED <<config, now, userRateLimits, ipRateLimits, call, tokenRefreshAttempts,
                   mw, checks, served, refreshes>>

NextActivity ==
    \/ \E p \in Trackers, data \in TrackData : TrackActivity(p, data)
    \/ \E p \in Trackers : FindFirstResolves(p)
    \/ \E p \in Trackers : UpdateResolves(p)
    \/ \E p \in Trackers : CreateResolves(p)
    \/ \E d \in FineSteps : Tick(d, MaxFineTicks) /\ UNCHANGED <<checks, served, refreshes>>

SpecActivity == InitActivity /\ [][NextActivity]_vars

\* The rows that record views of opportunities.
Views == {i \in 1..Len(userActivity) : userActivity[i].activityType = "viewed_opportunity"}

\* C30: the table holds at most one "viewed_opportunity" row for each
\* (userId, resourceId, resourceType), whatever the order in which the
\* store operations of concurrent calls of trackActivity take effect.
C30_OneRowPerView ==
    \A i, j \in Views :
        (/\ userActivity[i].userId = userActivity[j].userId
         /\ userActivity[i].resourceId = userActivity[j].resourceId
         /\ userActivity[i].resourceType = userActivity[j].resourceType) => i = j

====
